---- MODULE Spec2Model ----
(***************************************************************************)
(* Quote0 API: the update pipeline.                                        *)
(*                                                                         *)
(* The model follows the JavaScript services: the event store              *)
(* (DynamoDbService), the collection store (BinCollectionDbService), the   *)
(* schedule fetcher with its module-level cache (BinCollectionService),    *)
(* the display formatter (DisplayFormatterService), the device client      *)
(* (Quote0ClientService), the scheduled run (ScheduledUpdateService) and   *)
(* the Lambda handlers.                                                    *)
(*                                                                         *)
(* Every async function is a process whose position (pc) only changes at   *)
(* an await: one action per await, carrying the effect of the awaited I/O  *)
(* and the synchronous code up to the next await.  Strings the code takes  *)
(* apart (dates, texts, names) are sequences of one-character strings.     *)
(***************************************************************************)
EXTENDS Integers, Sequences, FiniteSets, TLC

VARIABLES
    eventsTable,    \* the EVENTS_TABLE items, key (date, id)
    binTable,       \* the BIN_COLLECTION_TABLE items, key (date, service)
    cache,          \* BinCollectionService's module-level cache
    now,            \* Date.now(), in milliseconds
    ticks,          \* number of clock advances so far (bounds the clock)
    apiCalls,       \* number of axios.get calls made to the schedule API
    device,         \* what the device shows, and how many payloads it took
    config,         \* process.env: QUOTE0_TEXT_API, QUOTE0_AUTH_TOKEN
    proc,           \* per invocation: operation, position and locals
    started,        \* number of invocations started so far (bounds the run)
    hist            \* completed top-level calls, in completion order

vars == << eventsTable, binTable, cache, now, ticks, apiCalls, device,
           config, proc, started, hist >>

(***************************************************************************)
(* Bounds of the model.                                                    *)
(***************************************************************************)
MaxUpserts == 2
MaxUpsertTicks == 1
MaxStores == 2
MaxStoreTicks == 1
MaxFetches == 3
MaxFetchTicks == 2
MaxPushes == 1
MaxPushTicks == 1
MaxRuns == 1
MaxFormatEvents == 2
MaxFormatBins == 2
StartTime == 1000

Procs == { "p1", "p2" }

(***************************************************************************)
(* Strings.                                                                *)
(***************************************************************************)
Today == << "2", "0", "2", "6", "-", "0", "2", "-", "0", "3" >>
Tomorrow == << "2", "0", "2", "6", "-", "0", "2", "-", "0", "4" >>
OtherDay == << "2", "0", "2", "6", "-", "0", "3", "-", "1", "0" >>

RawTomorrow == << "0", "4", "/", "0", "2", "/", "2", "0", "2", "6", " ", "0", "0", ":", "0", "0", ":", "0", "0" >>
RawOtherDay == << "1", "0", "/", "0", "3", "/", "2", "0", "2", "6", " ", "0", "0", ":", "0", "0", ":", "0", "0" >>

Recycling == << "R", "e", "c", "y", "c", "l", "i", "n", "g", " ", "C", "o", "l", "l", "e", "c", "t", "i", "o", "n", " ", "S", "e", "r", "v", "i", "c", "e" >>
Domestic == << "D", "o", "m", "e", "s", "t", "i", "c", " ", "W", "a", "s", "t", "e", " ", "C", "o", "l", "l", "e", "c", "t", "i", "o", "n", " ", "S", "e", "r", "v", "i", "c", "e" >>
FoodWaste == << "F", "o", "o", "d", " ", "W", "a", "s", "t", "e", " ", "C", "o", "l", "l", "e", "c", "t", "i", "o", "n", " ", "S", "e", "r", "v", "i", "c", "e" >>
GreyBin == << "G", "r", "e", "y", " ", "b", "i", "n" >>
RedBin == << "R", "e", "d", " ", "b", "i", "n" >>
FoodBin == << "F", "o", "o", "d", " ", "w", "a", "s", "t", "e" >>
Undefined == << "u", "n", "d", "e", "f", "i", "n", "e", "d" >>

T1 == << "A" >>
T2 == << "B", "\n", "C" >>

EventDates == { Today, OtherDay }
Texts == { T1, T2 }

\* String.prototype.split(sep) for a one-character separator
RECURSIVE SplitFrom(_, _, _, _)
SplitFrom(s, sep, i, cur) ==
    LET next == CHOOSE j \in i .. (Len(s) + 1) :
                   /\ j = Len(s) + 1 \/ s[j] = sep
                   /\ \A k \in i .. (j - 1) : s[k] # sep
    IN  IF next > Len(s) THEN << cur \o SubSeq(s, i, Len(s)) >>
        ELSE << cur \o SubSeq(s, i, next - 1) >>
                \o SplitFrom(s, sep, next + 1, << >>)

Split(s, sep) == SplitFrom(s, sep, 1, << >>)

\* array destructuring and template literals: a missing part prints "undefined"
Part(parts, i) == IF i <= Len(parts) THEN parts[i] ELSE Undefined

\* String.prototype.substring(0, n)
Substring(s, n) == IF Len(s) <= n THEN s ELSE SubSeq(s, 1, n)

\* Array.prototype.join(sep)
RECURSIVE Join(_, _)
Join(parts, sep) ==
    IF Len(parts) = 0 THEN << >>
    ELSE IF Len(parts) = 1 THEN parts[1]
    ELSE parts[1] \o sep \o Join(Tail(parts), sep)

(***************************************************************************)
(* The event store: DynamoDbService.                                       *)
(***************************************************************************)
Ids == 1 .. (MaxUpserts + 2)

\* ttl: "90 days after the item's date", kept symbolic
TtlOf(date) == [ base |-> date, plusDays |-> 90 ]

NoTtl == [ base |-> << >>, plusDays |-> 0 ]

RECURSIVE SortById(_)
SortById(S) ==
    IF S = {} THEN << >>
    ELSE LET m == CHOOSE r \in S : \A q \in S : r.id <= q.id
         IN  << m >> \o SortById(S \ { m })

\* QueryCommand on the partition key: the items of the date, in sort-key order
QueryEvents(table, date) == SortById({ r \in table : r.date = date })

\* (mutant) the sort key is not a fresh uuid but a fixed value
NewEventItemFixedId(date, id, eventText, ts) ==
    [ date |-> date, id |-> 0, event |-> eventText,
      created_at |-> ts, updated_at |-> 0,
      ttl |-> [ base |-> date, plusDays |-> 90 ] ]

\* the item createEvent builds (created_at = now, no updated_at yet)
NewEventItem(date, id, eventText, ts) ==
    [ date |-> date, id |-> id, event |-> eventText,
      created_at |-> ts, updated_at |-> 0, ttl |-> TtlOf(date) ]

\* PutCommand: replaces the item with the same key (date, id)
PutEvent(table, item) ==
    { r \in table : ~ (r.date = item.date /\ r.id = item.id) } \cup { item }

\* UpdateCommand "set event = :e, updated_at = :u" on Key {date, id};
\* DynamoDB creates the item when the key does not exist
UpdatedItem(table, date, id, eventText, ts) ==
    IF \E r \in table : r.date = date /\ r.id = id
    THEN LET old == CHOOSE r \in table : r.date = date /\ r.id = id
         IN  [ old EXCEPT !.event = eventText, !.updated_at = ts ]
    ELSE [ date |-> date, id |-> id, event |-> eventText,
           created_at |-> 0, updated_at |-> ts, ttl |-> NoTtl ]

\* (mutant) the update has the partition key only: every item of the date
\* gets the new text
UpdateEventItemAllOfDate(table, date, id, eventText, ts) ==
    { IF r.date = date
      THEN [ r EXCEPT !.event = eventText, !.updated_at = ts ] ELSE r :
         r \in table }

UpdateEventItem(table, date, id, eventText, ts) ==
    PutEvent(table, UpdatedItem(table, date, id, eventText, ts))

\* uuidv4(): an identifier no stored item and no pending create holds
FreshIds ==
    Ids \ ( { r.id : r \in eventsTable } \cup { proc[q].newId : q \in Procs } )

(***************************************************************************)
(* The collection store: BinCollectionDbService.                           *)
(***************************************************************************)
\* a raw entry of the schedule API
Raw(service, date, round) ==
    [ service |-> service, date |-> date, day |-> << "T", "u", "e" >>,
      round |-> round, schedule |-> << >> ]

\* (mutant) the date is read as MM/DD/YYYY
ParseRawDateMonthFirst(rawDate) ==
    LET datePart == Part(Split(rawDate, " "), 1)
        mdy == Split(datePart, "/")
    IN  Part(mdy, 3) \o << "-" >> \o Part(mdy, 1) \o << "-" >> \o Part(mdy, 2)

\* "DD/MM/YYYY HH:MM:SS" to "YYYY-MM-DD"
ParseRawDate(rawDate) ==
    LET datePart == Part(Split(rawDate, " "), 1)
        dmy == Split(datePart, "/")
    IN  Part(dmy, 3) \o << "-" >> \o Part(dmy, 2) \o << "-" >> \o Part(dmy, 1)

\* the item upsertBinCollection builds
BinItem(date, service, collectionData, ts) ==
    [ date |-> date, service |-> service, day |-> collectionData.day,
      round |-> collectionData.round, schedule |-> collectionData.schedule,
      updated_at |-> ts, ttl |-> TtlOf(date) ]

\* (mutant) the put does not replace the item of the same key
PutBinAppend(table, item) == table \cup { item }

\* PutCommand: replaces the item with the same key (date, service)
PutBin(table, item) ==
    { r \in table : ~ (r.date = item.date /\ r.service = item.service) }
       \cup { item }

\* the characters of the model, in code-point order
Alphabet ==
    << "\n", " ", "+", ",", "-", "/", "0", "1", "2", "3", "4", "5", "6",
       "7", "8", "9", ":", "A", "B", "C", "D", "E", "F", "G", "H", "I", "J",
       "K", "L", "M", "N", "O", "P", "Q", "R", "S", "T", "U", "V", "W", "X",
       "Y", "Z", "a", "b", "c", "d", "e", "f", "g", "h", "i", "j", "k", "l",
       "m", "n", "o", "p", "q", "r", "s", "t", "u", "v", "w", "x", "y", "z"
       >>

CodeOf(c) == CHOOSE i \in 1 .. Len(Alphabet) : Alphabet[i] = c

\* string comparison, as DynamoDB orders string sort keys
RECURSIVE StrLess(_, _)
StrLess(a, b) ==
    IF Len(b) = 0 THEN FALSE
    ELSE IF Len(a) = 0 THEN TRUE
    ELSE IF a[1] = b[1] THEN StrLess(Tail(a), Tail(b))
    ELSE CodeOf(a[1]) < CodeOf(b[1])

RECURSIVE SortByService(_)
SortByService(S) ==
    IF S = {} THEN << >>
    ELSE LET m == CHOOSE r \in S :
                     \A q \in S : q = r \/ StrLess(r.service, q.service)
         IN  << m >> \o SortByService(S \ { m })

\* (mutant) the query returns the items of every date
QueryBinsAnyDate(table, date) == SortByService(table)

\* QueryCommand on the partition key: the items of the date, in sort-key order
QueryBins(table, date) == SortByService({ r \in table : r.date = date })

(***************************************************************************)
(* The display formatter: DisplayFormatterService.                         *)
(***************************************************************************)
MAX_TITLE_LENGTH == 25
MAX_LINE_LENGTH == 29
MAX_LINES == 3

\* formatTitle: today's date as YYYY/MM/DD, cut to MAX_TITLE_LENGTH
FormatTitle(today) ==
    LET ymd == Split(today, "-")
    IN  Substring(Part(ymd, 1) \o << "/" >> \o Part(ymd, 2) \o << "/" >>
                     \o Part(ymd, 3), MAX_TITLE_LENGTH)

\* (mutant) the lines are pushed as they are, not cut to the line length
RECURSIVE AddLinesUntruncated(_, _)
AddLinesUntruncated(lines, eventLines) ==
    IF Len(eventLines) = 0 \/ Len(lines) >= MAX_LINES THEN lines
    ELSE AddLinesUntruncated(Append(lines, Head(eventLines)), Tail(eventLines))

\* the inner loop of formatMessage: the lines of one event text
RECURSIVE AddLines(_, _)
AddLines(lines, eventLines) ==
    IF Len(eventLines) = 0 \/ Len(lines) >= MAX_LINES THEN lines
    ELSE AddLines(Append(lines, Substring(Head(eventLines), MAX_LINE_LENGTH)),
                  Tail(eventLines))

\* (mutant) the outer loop stops after the first event
AddEventsFirstOnly(lines, events) ==
    IF Len(events) = 0 \/ Len(lines) >= MAX_LINES THEN lines
    ELSE AddLines(lines, Split(Head(events).event, "\n"))

\* the outer loop of formatMessage: the events in the order given
RECURSIVE AddEvents(_, _)
AddEvents(lines, events) ==
    IF Len(events) = 0 \/ Len(lines) >= MAX_LINES THEN lines
    ELSE AddEvents(AddLines(lines, Split(Head(events).event, "\n")),
                   Tail(events))

\* the padding loop of formatMessage
RECURSIVE PadLines(_)
PadLines(lines) ==
    IF Len(lines) >= MAX_LINES THEN lines ELSE PadLines(Append(lines, << >>))

FormatMessage(events) ==
    IF Len(events) = 0 THEN << "\n", "\n" >>
    ELSE Join(PadLines(AddEvents(<< >>, events)), << "\n" >>)

\* SERVICE_MAPPING[service] || service
FriendlyName(service) ==
    IF service = Domestic THEN GreyBin
    ELSE IF service = Recycling THEN RedBin
    ELSE IF service = FoodWaste THEN FoodBin
    ELSE service

\* filter((value, index, self) => self.indexOf(value) === index)
RECURSIVE Unique(_, _)
Unique(names, seen) ==
    IF Len(names) = 0 THEN << >>
    ELSE IF Head(names) \in seen THEN Unique(Tail(names), seen)
    ELSE << Head(names) >> \o Unique(Tail(names), seen \cup { Head(names) })

FormatSignatureFromDb(binCollections) ==
    IF Len(binCollections) = 0 THEN << >>
    ELSE LET binNames == Unique([ i \in 1 .. Len(binCollections) |->
                                     FriendlyName(binCollections[i].service) ], {})
             binsText == Join(binNames, << ",", " " >>)
             signature == << "C", "o", "l", "l", "e", "c", "t", " " >>
                             \o binsText \o << " ", "t", "m", "r" >>
         IN  Substring(signature, MAX_LINE_LENGTH)

FormatDisplayFromDb(events, binCollections, today) ==
    [ refreshNow |-> TRUE,
      title |-> FormatTitle(today),
      message |-> FormatMessage(events),
      signature |-> FormatSignatureFromDb(binCollections) ]

NoDisplay == [ refreshNow |-> FALSE, title |-> << >>, message |-> << >>,
               signature |-> << >> ]

\* an argument of formatDisplayFromDb: an array, or null / undefined
Arg(absent, items) == [ absent |-> absent, items |-> items ]

\* formatDisplayFromDb(events, binCollections) on any arguments: the log
\* line reads events.length and binCollections.length before anything
\* else, which throws a TypeError on null / undefined
TryFormatDisplayFromDb(eventsArg, binsArg, today) ==
    IF eventsArg.absent \/ binsArg.absent
    THEN [ raised |-> TRUE, display |-> NoDisplay ]
    ELSE [ raised |-> FALSE,
           display |-> FormatDisplayFromDb(eventsArg.items, binsArg.items,
                                           today) ]

(***************************************************************************)
(* The schedule fetcher's cache: BinCollectionService.                     *)
(***************************************************************************)
CACHE_TTL_HOURS == 12

MaxAgeMs == CACHE_TTL_HOURS * 60 * 60 * 1000

\* cache = { data: null, timestamp: null }
EmptyCache == [ hasData |-> FALSE, data |-> << >>, timestamp |-> 0 ]

\* (mutant) the age is compared with the threshold taken in seconds
IsCacheValidShortTtl(c, t) ==
    IF ~ c.hasData \/ c.timestamp = 0 THEN FALSE
    ELSE t - c.timestamp < CACHE_TTL_HOURS * 60 * 60

\* isCacheValid()
IsCacheValid(c, t) ==
    IF ~ c.hasData \/ c.timestamp = 0 THEN FALSE
    ELSE LET age == t - c.timestamp
             maxAge == MaxAgeMs
         IN  age < maxAge

\* (mutant) a failed request drops the cache it fell back to
FetchOutcomeDropsCache(c, response, t) ==
    IF response.kind = "ok"
    THEN [ cache |-> [ hasData |-> TRUE, data |-> response.collections,
                       timestamp |-> t ],
           result |-> response.collections, raised |-> FALSE ]
    ELSE [ cache |-> EmptyCache,
           result |-> IF c.hasData THEN c.data ELSE << >>, raised |-> FALSE ]

\* (mutant) the success flag is not looked at: an unsuccessful response is
\* taken for a schedule
FetchOutcomeIgnoresFlag(c, response, t) ==
    IF response.kind \in { "ok", "unsuccessful" }
    THEN [ cache |-> [ hasData |-> TRUE, data |-> response.collections,
                       timestamp |-> t ],
           result |-> response.collections, raised |-> FALSE ]
    ELSE [ cache |-> c, result |-> IF c.hasData THEN c.data ELSE << >>,
           raised |-> FALSE ]

\* (mutant) an unsuccessful response is thrown outside the try block
FetchOutcomeThrows(c, response, t) ==
    IF response.kind = "ok"
    THEN [ cache |-> [ hasData |-> TRUE, data |-> response.collections,
                       timestamp |-> t ],
           result |-> response.collections, raised |-> FALSE ]
    ELSE IF response.kind = "unsuccessful"
    THEN [ cache |-> c, result |-> << >>, raised |-> TRUE ]
    ELSE [ cache |-> c, result |-> IF c.hasData THEN c.data ELSE << >>,
           raised |-> FALSE ]

\* fetchBinCollections after axios.get has settled: the try block and its
\* catch.  Rejections, a false success flag and a body without collections
\* all end in the catch block.
FetchOutcome(c, response, t) ==
    IF response.kind = "ok"
    THEN [ cache |-> [ hasData |-> TRUE, data |-> response.collections,
                       timestamp |-> t ],
           result |-> response.collections, raised |-> FALSE ]
    ELSE [ cache |-> c, result |-> IF c.hasData THEN c.data ELSE << >>,
           raised |-> FALSE ]

(***************************************************************************)
(* The device client: Quote0ClientService.                                 *)
(***************************************************************************)
MAX_RETRIES == 3
INITIAL_RETRY_DELAY == 1000

\* an unset or empty environment variable is falsy
Truthy(value) == value # ""

\* (mutant) linear instead of exponential backoff, from zero
RetryDelayLinear(attempt) == INITIAL_RETRY_DELAY * (attempt - 1)

\* INITIAL_RETRY_DELAY * Math.pow(2, attempt - 1)
RetryDelay(attempt) == INITIAL_RETRY_DELAY * 2 ^ (attempt - 1)

\* (mutant) attempt <= MAX_RETRIES
MayRetryInclusive(attempt) == attempt <= MAX_RETRIES

\* attempt < MAX_RETRIES
MayRetry(attempt) == attempt < MAX_RETRIES

\* (mutant) only the endpoint is checked before sending
ShouldSkipPushEndpointOnly(cfg) == ~ Truthy(cfg.QUOTE0_TEXT_API)

\* the two guards at the head of updateDisplay
ShouldSkipPush(cfg) ==
    ~ Truthy(cfg.QUOTE0_TEXT_API) \/ ~ Truthy(cfg.QUOTE0_AUTH_TOKEN)

(***************************************************************************)
(* Processes: one per invocation of a handler or service function.         *)
(***************************************************************************)
NoItem == [ date |-> << >>, id |-> 0, event |-> << >>,
            created_at |-> 0, updated_at |-> 0, ttl |-> NoTtl ]

\* no request body: the invocation is not an HTTP handler
NoBody == [ json |-> "none" ]

IdleProc ==
    [ op |-> "idle", pc |-> "idle",
      \* arguments
      date |-> << >>, text |-> << >>,
      \* the request body of a POST handler
      body |-> NoBody,
      \* upsertEvent / createEvent
      existing |-> << >>, newId |-> 0, ts |-> 0, item |-> NoItem,
      \* createEventsBatch: the events, the loop index, the counts
      batch |-> << >>, k |-> 0, succeeded |-> 0, failed |-> 0,
      \* storeBinCollections
      coll |-> << >>, i |-> 0, storedCount |-> 0,
      \* fetchBinCollections; cache0, now0, api0 are the cache, the clock
      \* and the call counter as the call found them
      list |-> << >>, cache0 |-> EmptyCache, now0 |-> 0, api0 |-> 0,
      response |-> "none",
      \* updateDisplay
      display |-> NoDisplay, attempt |-> 0, posts |-> 0, sleeps |-> << >>,
      attemptAt |-> << >>, outcomes |-> << >>, wakeAt |-> 0,
      \* the run: steps begun and steps completed, in order
      steps |-> << >>, ended |-> << >>,
      tomorrowCollections |-> << >>, events |-> << >>,
      \* formatDisplayFromDb called on its own: an argument was null/undefined
      eventsAbsent |-> FALSE, binsAbsent |-> FALSE,
      startTime |-> 0, duration |-> 0,
      \* the step in which an awaited call last rejected ("" when none did)
      raisedIn |-> "",
      \* what the invocation returns, or that it threw
      raised |-> FALSE, error |-> "", success |-> FALSE,
      statusCode |-> 0, quote0_updated |-> FALSE ]

Idle(p) == proc[p].pc = "idle"

BeginStep(pr, step) == [ pr EXCEPT !.steps = Append(@, step) ]

EndStep(pr, step) == [ pr EXCEPT !.ended = Append(@, step) ]

\* an awaited call rejects: the step it was awaited in ("write" for the
\* handlers' event write, which belongs to no step)
Raise(pr) ==
    [ pr EXCEPT !.raisedIn = IF Len(pr.steps) > Len(pr.ended)
                             THEN pr.steps[Len(pr.steps)] ELSE "write" ]

\* a service function called on its own returns to its caller
Finish(pr) == [ pr EXCEPT !.pc = "done" ]

\* executeUpdate: the return of the try block
ScheduledSuccess(pr) ==
    [ pr EXCEPT !.pc = "done", !.success = TRUE,
                !.duration = now - pr.startTime ]

\* (mutant) the catch block logs the error and throws it again
ScheduledFailureRethrows(pr, message) ==
    [ pr EXCEPT !.pc = "done", !.raised = TRUE, !.error = message ]

\* executeUpdate: the return of the catch block
ScheduledFailure(pr, message) ==
    [ pr EXCEPT !.pc = "done", !.success = FALSE, !.error = message,
                !.duration = now - pr.startTime ]

\* handlers.createEvent: the 201 response
Created201(pr) ==
    [ pr EXCEPT !.pc = "done", !.statusCode = 201, !.quote0_updated = TRUE ]

\* handlers.createEvent: the responses that end the request early
Respond(pr, statusCode, message) ==
    [ pr EXCEPT !.pc = "done", !.statusCode = statusCode, !.error = message ]

\* handlers.createEventsBatch: the 201 / 207 response
BatchResponse(pr, quote0Updated) ==
    [ pr EXCEPT !.pc = "done",
                !.statusCode = IF pr.failed > 0 THEN 207 ELSE 201,
                !.quote0_updated = quote0Updated ]

\* (mutant) a push that failed on every attempt fails the scheduled run
EndPushReportsFailure(pr) ==
    IF pr.op = "scheduled"
    THEN IF pr.posts > 0 /\ pr.outcomes[Len(pr.outcomes)] = "error"
         THEN ScheduledFailure(pr, "push failed")
         ELSE ScheduledSuccess(EndStep(pr, "push"))
    ELSE IF pr.op = "createEvent" THEN Created201(EndStep(pr, "push"))
    ELSE IF pr.op = "createEventsBatch"
    THEN BatchResponse(EndStep(pr, "push"), TRUE)
    ELSE Finish(pr)

\* updateDisplay has returned
EndPush(pr) ==
    IF pr.op = "scheduled" THEN ScheduledSuccess(EndStep(pr, "push"))
    ELSE IF pr.op = "createEvent" THEN Created201(EndStep(pr, "push"))
    ELSE IF pr.op = "createEventsBatch"
    THEN BatchResponse(EndStep(pr, "push"), TRUE)
    ELSE Finish(pr)

\* axios.post is issued, at time t
IssuePost(pr, t) ==
    [ pr EXCEPT !.pc = "pu_post", !.posts = @ + 1,
                !.attemptAt = Append(@, t) ]

\* (mutant) every attempt formats the payload again from what the stores
\* hold when the attempt is made
UpdateDisplayRendersAgain(pr, t) ==
    IF ShouldSkipPush(config) THEN EndPush(pr)
    ELSE IssuePost([ pr EXCEPT !.display =
                        FormatDisplayFromDb(QueryEvents(eventsTable, Today),
                                            QueryBins(binTable, Tomorrow),
                                            Today) ], t)

\* updateDisplay(displayData, attempt) up to its first await, entered at
\* time t
UpdateDisplay(pr, t) ==
    IF ShouldSkipPush(config) THEN EndPush(pr) ELSE IssuePost(pr, t)

\* the caller's updateDisplay(displayData): attempt defaults to 1
BeginPush(pr, displayData) ==
    UpdateDisplay([ BeginStep(pr, "push") EXCEPT
                      !.display = displayData, !.attempt = 1 ], now)

\* formatDisplayFromDb, then the push
Render(pr) ==
    BeginPush(EndStep(BeginStep(pr, "render"), "render"),
              FormatDisplayFromDb(pr.events, pr.tomorrowCollections, Today))

EndQueryToday(pr, items) ==
    Render(EndStep([ pr EXCEPT !.events = items ], "queryTodayEvents"))

\* dynamoDbService.getEventsByDate(today) is issued
BeginQueryToday(pr) ==
    BeginStep([ pr EXCEPT !.pc = "q_today" ], "queryTodayEvents")

EndQueryTomorrow(pr, items) ==
    BeginQueryToday(EndStep([ pr EXCEPT !.tomorrowCollections = items ],
                            "queryTomorrowCollections"))

\* binCollectionDbService.getTomorrowCollections() is issued
BeginQueryTomorrow(pr) ==
    BeginStep([ pr EXCEPT !.pc = "q_tomorrow" ], "queryTomorrowCollections")

\* (mutant) the run queries today's events right after the store
EndStoreTodayFirst(pr, count) ==
    IF pr.op = "scheduled"
    THEN BeginQueryToday(EndStep([ pr EXCEPT !.storedCount = count ],
                                 "storeMany"))
    ELSE Finish([ pr EXCEPT !.storedCount = count ])

\* storeBinCollections has returned its count
EndStore(pr, count) ==
    IF pr.op = "scheduled"
    THEN BeginQueryTomorrow(EndStep([ pr EXCEPT !.storedCount = count ],
                                    "storeMany"))
    ELSE Finish([ pr EXCEPT !.storedCount = count ])

\* (mutant) the loop starts at the second entry
BeginStoreFromSecond(pr, collections) ==
    LET q == BeginStep([ pr EXCEPT !.coll = collections, !.i = 2,
                                   !.storedCount = 0 ], "storeMany")
    IN  IF Len(collections) <= 1 THEN EndStore(q, 0)
        ELSE [ q EXCEPT !.pc = "st_put", !.ts = now ]

\* storeBinCollections(collections) up to its first await
BeginStore(pr, collections) ==
    LET q == BeginStep([ pr EXCEPT !.coll = collections, !.i = 1,
                                   !.storedCount = 0 ], "storeMany")
    IN  IF Len(collections) = 0 THEN EndStore(q, 0)
        ELSE [ q EXCEPT !.pc = "st_put", !.ts = now ]

\* (mutant) a scheduled run that is handed an empty list gives up
EndFetchRequiresEntries(pr, collections) ==
    IF pr.op = "scheduled"
    THEN IF Len(collections) = 0
         THEN ScheduledFailure(pr, "no collections")
         ELSE BeginStore(EndStep([ pr EXCEPT !.list = collections ],
                                 "fetchSchedule"), collections)
    ELSE Finish([ pr EXCEPT !.list = collections ])

\* fetchBinCollections has returned a list
EndFetch(pr, collections) ==
    IF pr.op = "scheduled"
    THEN BeginStore(EndStep([ pr EXCEPT !.list = collections ],
                            "fetchSchedule"), collections)
    ELSE Finish([ pr EXCEPT !.list = collections ])

\* fetchBinCollections() up to its first await: the cache check
BeginFetch(pr) ==
    LET q == BeginStep([ pr EXCEPT !.cache0 = cache, !.now0 = now,
                                   !.api0 = apiCalls ], "fetchSchedule")
    IN  IF IsCacheValid(cache, now) THEN EndFetch(q, cache.data)
        ELSE [ q EXCEPT !.pc = "fe_get" ]

\* (mutant) the handler's run starts like a scheduled run, with the fetch
OnDemandRunWithFetch(pr) == BeginFetch(pr)

\* the run a handler starts after its event write: it begins with
\* getTomorrowCollections
OnDemandRun(pr) == BeginQueryTomorrow(pr)

\* createEventsBatch: the loop issues the upsert of event k, or returns the
\* batch result to the handler, which starts its on-demand run
BatchNext(pr, k) ==
    IF k <= Len(pr.batch)
    THEN [ pr EXCEPT !.pc = "up_query", !.k = k,
                     !.date = pr.batch[k].date, !.text = pr.batch[k].event ]
    ELSE OnDemandRun(pr)

\* (mutant) the display is updated as soon as one event of the batch has
\* been written
EndUpsertUpdatesAtOnce(pr, item) ==
    IF pr.op = "createEventsBatch"
    THEN OnDemandRun([ pr EXCEPT !.item = item, !.succeeded = @ + 1 ])
    ELSE Finish([ pr EXCEPT !.item = item ])

\* upsertEvent has returned the item it wrote
EndUpsert(pr, item) ==
    IF pr.op = "createEventsBatch"
    THEN BatchNext([ pr EXCEPT !.item = item, !.succeeded = @ + 1 ], pr.k + 1)
    ELSE Finish([ pr EXCEPT !.item = item ])

\* (mutant) a scheduled run takes a rejected events query for an empty
\* result and goes on
FailQueryIgnored(pr, message) ==
    IF pr.op = "scheduled"
    THEN IF pr.pc = "q_today" THEN EndQueryToday(pr, << >>)
         ELSE ScheduledFailure(pr, message)
    ELSE IF pr.op = "createEvent"
    THEN IF pr.pc = "ce_create" THEN Respond(pr, 500, message)
         ELSE Created201(pr)
    ELSE IF pr.op = "createEventsBatch"
    THEN IF pr.pc \in { "up_query", "up_update", "up_create" }
         THEN BatchNext([ pr EXCEPT !.failed = @ + 1 ], pr.k + 1)
         ELSE BatchResponse(pr, FALSE)
    ELSE [ pr EXCEPT !.pc = "done", !.raised = TRUE, !.error = message ]

\* (mutant) the batch loop has no try of its own: the first event that
\* fails ends the loop
FailEndsBatch(pr, message) ==
    IF pr.op = "scheduled" THEN ScheduledFailure(pr, message)
    ELSE IF pr.op = "createEvent"
    THEN IF pr.pc = "ce_create" THEN Respond(pr, 500, message)
         ELSE Created201(pr)
    ELSE IF pr.op = "createEventsBatch"
    THEN IF pr.pc \in { "up_query", "up_update", "up_create" }
         THEN OnDemandRun([ pr EXCEPT !.failed = @ + 1 ])
         ELSE BatchResponse(pr, FALSE)
    ELSE [ pr EXCEPT !.pc = "done", !.raised = TRUE, !.error = message ]

\* (mutant) the handler has no inner try: a failure of its follow-up run
\* reaches the outer catch
FailReachesOuterCatch(pr, message) ==
    IF pr.op = "scheduled" THEN ScheduledFailure(pr, message)
    ELSE IF pr.op = "createEvent" THEN Respond(pr, 500, message)
    ELSE IF pr.op = "createEventsBatch"
    THEN IF pr.pc \in { "up_query", "up_update", "up_create" }
         THEN BatchNext([ pr EXCEPT !.failed = @ + 1 ], pr.k + 1)
         ELSE BatchResponse(pr, FALSE)
    ELSE [ pr EXCEPT !.pc = "done", !.raised = TRUE, !.error = message ]

\* (mutant) the catch block of executeUpdate starts the run again
FailRunsAgain(pr, message) ==
    IF pr.op = "scheduled"
    THEN BeginFetch([ IdleProc EXCEPT !.op = "scheduled",
                                      !.startTime = pr.startTime ])
    ELSE IF pr.op = "createEvent"
    THEN IF pr.pc = "ce_create" THEN Respond(pr, 500, message)
         ELSE Created201(pr)
    ELSE IF pr.op = "createEventsBatch"
    THEN IF pr.pc \in { "up_query", "up_update", "up_create" }
         THEN BatchNext([ pr EXCEPT !.failed = @ + 1 ], pr.k + 1)
         ELSE BatchResponse(pr, FALSE)
    ELSE [ pr EXCEPT !.pc = "done", !.raised = TRUE, !.error = message ]

\* (mutant) a rejected write is skipped: storeBinCollections goes on with
\* the next entry and returns the count of the writes that succeeded
FailSkipsEntry(pr, message) ==
    IF pr.op = "scheduled" THEN ScheduledFailure(pr, message)
    ELSE IF pr.op = "createEvent"
    THEN IF pr.pc = "ce_create" THEN Respond(pr, 500, message)
         ELSE Created201(pr)
    ELSE IF pr.op = "createEventsBatch"
    THEN IF pr.pc \in { "up_query", "up_update", "up_create" }
         THEN BatchNext([ pr EXCEPT !.failed = @ + 1 ], pr.k + 1)
         ELSE BatchResponse(pr, FALSE)
    ELSE IF pr.op = "store"
    THEN IF pr.i < Len(pr.coll) THEN [ pr EXCEPT !.i = @ + 1, !.ts = now ]
         ELSE EndStore(pr, pr.storedCount)
    ELSE [ pr EXCEPT !.pc = "done", !.raised = TRUE, !.error = message ]

\* an awaited call rejects: where the exception ends up
Fail(pr, message) ==
    IF pr.op = "scheduled" THEN ScheduledFailure(pr, message)
    ELSE IF pr.op = "createEvent"
    THEN IF pr.pc = "ce_create" THEN Respond(pr, 500, message)
         ELSE Created201(pr)
    ELSE IF pr.op = "createEventsBatch"
    THEN IF pr.pc \in { "up_query", "up_update", "up_create" }
         THEN BatchNext([ pr EXCEPT !.failed = @ + 1 ], pr.k + 1)
         ELSE BatchResponse(pr, FALSE)
    ELSE [ pr EXCEPT !.pc = "done", !.raised = TRUE, !.error = message ]

\* a completed call, as the history records it
Completed(pr, table) ==
    [ op |-> pr.op, date |-> pr.date, text |-> pr.text, coll |-> pr.coll,
      raised |-> pr.raised, response |-> pr.response, list |-> pr.list,
      hadCache |-> pr.cache0.hasData,
      keys |-> { << r.date, r.service >> : r \in table } ]

(***************************************************************************)
(* Actions shared by every specification.                                  *)
(***************************************************************************)
\* the caller takes the result (or the exception); the invocation ends
Return(p) ==
    /\ proc[p].pc = "done"
    /\ hist' = Append(hist, Completed(proc[p], binTable))
    /\ proc' = [ proc EXCEPT ![p] = IdleProc ]
    /\ UNCHANGED << eventsTable, binTable, cache, now, ticks, apiCalls,
                    device, config, started >>

\* time passes
Tick(d, maxTicks) ==
    /\ ticks < maxTicks
    /\ ticks' = ticks + 1
    /\ now' = now + d
    /\ UNCHANGED << eventsTable, binTable, cache, apiCalls, device,
                    config, proc, started, hist >>

(***************************************************************************)
(* DynamoDbService.upsertEvent(date, eventText).                           *)
(***************************************************************************)
UpsertFrame ==
    << binTable, cache, now, ticks, apiCalls, device, config, hist >>

\* the caller invokes upsertEvent: getEventsByDate is issued and awaited
StartUpsert(p, date, eventText) ==
    /\ Idle(p)
    /\ started < MaxUpserts
    /\ started' = started + 1
    /\ proc' = [ proc EXCEPT ![p] =
                   [ IdleProc EXCEPT !.op = "upsert", !.pc = "up_query",
                                     !.date = date, !.text = eventText ] ]
    /\ UNCHANGED eventsTable
    /\ UNCHANGED UpsertFrame

\* (mutant) the existence check is dropped: every upsert creates
UpsertBranchAlwaysCreate(existing) == "up_create"

\* which branch upsertEvent takes on the query result
UpsertBranch(existing) ==
    IF Len(existing) > 0 THEN "up_update" ELSE "up_create"

\* getEventsByDate resolves: the branch is chosen and the write is issued
UpsertQueryOk(p) ==
    /\ proc[p].pc = "up_query"
    /\ LET existing == QueryEvents(eventsTable, proc[p].date)
           branch == UpsertBranch(existing)
       IN  \E id \in FreshIds :
             proc' = [ proc EXCEPT ![p].pc = branch,
                                   ![p].existing = existing,
                                   ![p].ts = now,
                                   ![p].newId =
                                       IF branch = "up_create" THEN id ELSE 0 ]
    /\ UNCHANGED << eventsTable, started >>
    /\ UNCHANGED UpsertFrame

\* updateEvent resolves: the first item found gets the new text
UpsertUpdateOk(p) ==
    /\ proc[p].pc = "up_update"
    /\ LET pr == proc[p]
           id == pr.existing[1].id
           item == UpdatedItem(eventsTable, pr.date, id, pr.text, pr.ts)
       IN  /\ eventsTable' =
                 UpdateEventItem(eventsTable, pr.date, id, pr.text, pr.ts)
           /\ proc' = [ proc EXCEPT ![p] = EndUpsert(pr, item) ]
    /\ UNCHANGED started
    /\ UNCHANGED UpsertFrame

\* createEvent resolves: a new item is put
UpsertCreateOk(p) ==
    /\ proc[p].pc = "up_create"
    /\ LET pr == proc[p]
           item == NewEventItem(pr.date, pr.newId, pr.text, pr.ts)
       IN  /\ eventsTable' = PutEvent(eventsTable, item)
           /\ proc' = [ proc EXCEPT ![p] = EndUpsert(pr, item) ]
    /\ UNCHANGED started
    /\ UNCHANGED UpsertFrame

\* docClient.send rejects: the error is logged and rethrown, nothing is written
UpsertFail(p) ==
    /\ proc[p].pc \in { "up_query", "up_update", "up_create" }
    /\ proc' = [ proc EXCEPT ![p] = Fail(Raise(proc[p]), "DynamoDB error") ]
    /\ UNCHANGED << eventsTable, started >>
    /\ UNCHANGED UpsertFrame

(***************************************************************************)
(* BinCollectionDbService.storeBinCollections(collections).                *)
(***************************************************************************)
StoreFrame ==
    << eventsTable, cache, now, ticks, apiCalls, device, config, hist >>

\* the caller invokes storeBinCollections
StartStore(p, collections) ==
    /\ Idle(p)
    /\ started < MaxStores
    /\ started' = started + 1
    /\ proc' = [ proc EXCEPT ![p] =
                   BeginStore([ IdleProc EXCEPT !.op = "store" ], collections) ]
    /\ UNCHANGED binTable
    /\ UNCHANGED StoreFrame

\* upsertBinCollection resolves for entry i: the item is put, the count
\* grows, and the loop issues the next put or returns the count
StorePutOk(p) ==
    /\ proc[p].pc = "st_put"
    /\ LET pr == proc[p]
           collection == pr.coll[pr.i]
           dateStr == ParseRawDate(collection.date)
           item == BinItem(dateStr, collection.service, collection, pr.ts)
           count == pr.storedCount + 1
       IN  /\ binTable' = PutBin(binTable, item)
           /\ proc' = [ proc EXCEPT ![p] =
                          IF pr.i < Len(pr.coll)
                          THEN [ pr EXCEPT !.i = @ + 1, !.storedCount = count,
                                           !.ts = now ]
                          ELSE EndStore(pr, count) ]
    /\ UNCHANGED started
    /\ UNCHANGED StoreFrame

\* upsertBinCollection rejects: logged and rethrown twice, the loop ends
StorePutFail(p) ==
    /\ proc[p].pc = "st_put"
    /\ proc' = [ proc EXCEPT ![p] = Fail(Raise(proc[p]), "put rejected") ]
    /\ UNCHANGED << binTable, started >>
    /\ UNCHANGED StoreFrame

(***************************************************************************)
(* BinCollectionService.fetchBinCollections().                             *)
(***************************************************************************)
\* what the schedule API can answer
ListA ==
    << Raw(Recycling, RawTomorrow, << "1" >>),
       Raw(FoodWaste, RawTomorrow, << "1" >>) >>

ListB ==
    << Raw(Recycling, RawTomorrow, << "1" >>),
       Raw(Domestic, RawOtherDay, << "1" >>),
       Raw(Recycling, RawTomorrow, << "2" >>) >>

ApiLists == { ListA, ListB, << >> }

\* success with a list, success: false, a rejected request (timeout,
\* transport, status), a body without a collections array
Responses ==
    { [ kind |-> "ok", collections |-> l ] : l \in ApiLists }
       \cup { [ kind |-> k, collections |-> << >> ] :
                 k \in { "unsuccessful", "rejected", "malformed" } }

\* the caller invokes fetchBinCollections: the cache answers, or axios.get
\* is issued and awaited
StartFetch(p) ==
    /\ Idle(p)
    /\ started < MaxFetches
    /\ started' = started + 1
    /\ proc' = [ proc EXCEPT ![p] =
                   BeginFetch([ IdleProc EXCEPT !.op = "fetch" ]) ]
    /\ apiCalls' = IF proc'[p].pc = "fe_get" THEN apiCalls + 1 ELSE apiCalls
    /\ UNCHANGED << eventsTable, binTable, cache, now, ticks, device,
                    config, hist >>

\* axios.get settles
FetchResponds(p, response) ==
    /\ proc[p].pc = "fe_get"
    /\ LET out == FetchOutcome(cache, response, now)
           pr == [ proc[p] EXCEPT !.response = response.kind ]
       IN  /\ cache' = out.cache
           /\ proc' = [ proc EXCEPT ![p] =
                          IF out.raised THEN Fail(Raise(pr), "API error")
                          ELSE EndFetch(pr, out.result) ]
    /\ UNCHANGED << eventsTable, binTable, now, ticks, apiCalls, device,
                    config, started, hist >>

(***************************************************************************)
(* Quote0ClientService.updateDisplay(displayData).                         *)
(***************************************************************************)
PushFrame ==
    << eventsTable, binTable, cache, now, ticks, apiCalls, config, hist >>

\* the caller invokes updateDisplay
StartPush(p, displayData) ==
    /\ Idle(p)
    /\ started < MaxPushes
    /\ started' = started + 1
    /\ proc' = [ proc EXCEPT ![p] =
                   BeginPush([ IdleProc EXCEPT !.op = "push" ], displayData) ]
    /\ UNCHANGED device
    /\ UNCHANGED PushFrame

\* axios.post resolves: the device has taken the payload
PushOk(p) ==
    /\ proc[p].pc = "pu_post"
    /\ device' = [ display |-> proc[p].display,
                    received |-> device.received + 1 ]
    /\ proc' = [ proc EXCEPT ![p] =
                   EndPush([ proc[p] EXCEPT !.outcomes = Append(@, "ok") ]) ]
    /\ UNCHANGED started
    /\ UNCHANGED PushFrame

\* axios.post rejects (status, timeout, connection): the catch block
\* either starts the backoff sleep or gives up and returns
PushError(p) ==
    /\ proc[p].pc = "pu_post"
    /\ LET pr == [ proc[p] EXCEPT !.outcomes = Append(@, "error") ]
           delay == RetryDelay(pr.attempt)
       IN  proc' = [ proc EXCEPT ![p] =
                       IF MayRetry(pr.attempt)
                       THEN [ pr EXCEPT !.pc = "pu_sleep",
                                        !.sleeps = Append(@, delay),
                                        !.wakeAt = now + delay ]
                       ELSE EndPush(pr) ]
    /\ UNCHANGED << device, started >>
    /\ UNCHANGED PushFrame

\* the sleep's timer fires, at the time asked for or later when the clock
\* has already passed it: updateDisplay(displayData, attempt + 1)
PushWake(p) ==
    /\ proc[p].pc = "pu_sleep"
    /\ now' = IF now < proc[p].wakeAt THEN proc[p].wakeAt ELSE now
    /\ proc' = [ proc EXCEPT ![p] =
                   UpdateDisplay([ proc[p] EXCEPT !.attempt = @ + 1 ], now') ]
    /\ UNCHANGED << eventsTable, binTable, cache, ticks, apiCalls, config,
                    hist, device, started >>

(***************************************************************************)
(* The queries of a run.                                                   *)
(***************************************************************************)
QueryFrame ==
    << eventsTable, binTable, cache, now, ticks, apiCalls, device,
       config, started, hist >>

\* getTomorrowCollections resolves; getEventsByDate(today) is issued
QueryTomorrowOk(p) ==
    /\ proc[p].pc = "q_tomorrow"
    /\ proc' = [ proc EXCEPT ![p] =
                   EndQueryTomorrow(proc[p], QueryBins(binTable, Tomorrow)) ]
    /\ UNCHANGED QueryFrame

\* getEventsByDate(today) resolves; the display is formatted and
\* updateDisplay is called
QueryTodayOk(p) ==
    /\ proc[p].pc = "q_today"
    /\ proc' = [ proc EXCEPT ![p] =
                   EndQueryToday(proc[p], QueryEvents(eventsTable, Today)) ]
    /\ UNCHANGED QueryFrame

\* either query rejects
QueryFail(p) ==
    /\ proc[p].pc \in { "q_tomorrow", "q_today" }
    /\ proc' = [ proc EXCEPT ![p] =
                   Fail(Raise(proc[p]), IF proc[p].pc = "q_tomorrow"
                                        THEN "collections query rejected"
                                        ELSE "events query rejected") ]
    /\ UNCHANGED QueryFrame

(***************************************************************************)
(* ScheduledUpdateService.executeUpdate().                                 *)
(***************************************************************************)
\* the scheduler invokes executeUpdate: step 1 begins
StartScheduled(p) ==
    /\ Idle(p)
    /\ started < MaxRuns
    /\ started' = started + 1
    /\ proc' = [ proc EXCEPT ![p] =
                   BeginFetch([ IdleProc EXCEPT !.op = "scheduled",
                                                !.startTime = now ]) ]
    /\ apiCalls' = IF proc'[p].pc = "fe_get" THEN apiCalls + 1 ELSE apiCalls
    /\ UNCHANGED << eventsTable, binTable, cache, now, ticks, device,
                    config, hist >>

(***************************************************************************)
(* handlers.createEvent: POST /api/events.                                 *)
(***************************************************************************)
MaxEventTextLength == 87

Digits == { "0", "1", "2", "3", "4", "5", "6", "7", "8", "9" }

\* date.replace(/\//g, '-')
NormalizeDate(date) ==
    [ i \in 1 .. Len(date) |-> IF date[i] = "/" THEN "-" ELSE date[i] ]

\* /^\d{4}-\d{2}-\d{2}$/.test(normalizedDate)
IsDateFormat(d) ==
    /\ Len(d) = 10
    /\ \A i \in { 1, 2, 3, 4, 6, 7, 9, 10 } : d[i] \in Digits
    /\ d[5] = "-" /\ d[8] = "-"

LongText == [ i \in 1 .. (MaxEventTextLength + 1) |-> "x" ]

\* request bodies: json is "invalid" (JSON.parse throws), "null" (parses,
\* but has no fields to destructure) or "object"
Body(json, date, eventText) ==
    [ json |-> json, date |-> date, event |-> eventText ]

Bodies ==
    { Body("object", << "2", "0", "2", "6", "/", "0", "2", "/", "0", "3" >>, T1),
      Body("object", Today, T2),
      Body("object", << "3", "-", "2", "-", "2", "0", "2", "6" >>, T1),
      Body("object", Today, LongText),
      Body("object", << >>, T1),
      Body("object", Today, << >>),
      Body("null", << >>, << >>),
      Body("invalid", << >>, << >>) }

\* (mutant) the date format is not checked
FieldStatusDateUnchecked(date, eventText) ==
    IF date = << >> THEN 400
    ELSE IF eventText = << >> THEN 400
    ELSE IF Len(eventText) > MaxEventTextLength THEN 422
    ELSE 0

\* the checks on one event's fields: 0 when they pass
FieldStatus(date, eventText) ==
    IF date = << >> THEN 400
    ELSE IF eventText = << >> THEN 400
    ELSE IF ~ IsDateFormat(NormalizeDate(date)) THEN 400
    ELSE IF Len(eventText) > MaxEventTextLength THEN 422
    ELSE 0

\* the checks before the store is touched: 0 when the request passes
ValidationStatus(body) ==
    IF body.json = "invalid" THEN 400
    ELSE IF body.json = "null" THEN 500
    ELSE FieldStatus(body.date, body.event)

\* the request arrives: it is rejected, or dynamoDbService.createEvent is
\* issued and awaited
StartCreateEvent(p, body) ==
    /\ Idle(p)
    /\ started < MaxRuns
    /\ started' = started + 1
    /\ LET pr == [ IdleProc EXCEPT !.op = "createEvent", !.body = body ]
           status == ValidationStatus(body)
       IN  IF status # 0
           THEN proc' = [ proc EXCEPT ![p] = Respond(pr, status, "rejected") ]
           ELSE \E id \in FreshIds :
                  proc' = [ proc EXCEPT ![p] =
                              [ pr EXCEPT !.pc = "ce_create",
                                          !.date = NormalizeDate(body.date),
                                          !.text = body.event,
                                          !.newId = id, !.ts = now ] ]
    /\ UNCHANGED << eventsTable, binTable, cache, now, ticks, apiCalls,
                    device, config, hist >>

\* createEvent resolves: the item is stored and the on-demand run begins
\* with getTomorrowCollections
CreateEventOk(p) ==
    /\ proc[p].pc = "ce_create"
    /\ LET pr == proc[p]
           item == NewEventItem(pr.date, pr.newId, pr.text, pr.ts)
       IN  /\ eventsTable' = PutEvent(eventsTable, item)
           /\ proc' = [ proc EXCEPT ![p] =
                          OnDemandRun([ pr EXCEPT !.item = item ]) ]
    /\ UNCHANGED << binTable, cache, now, ticks, apiCalls, device,
                    config, started, hist >>

\* createEvent rejects: the outer catch answers 500
CreateEventFail(p) ==
    /\ proc[p].pc = "ce_create"
    /\ proc' = [ proc EXCEPT ![p] = Fail(Raise(proc[p]), "DynamoDB error") ]
    /\ UNCHANGED QueryFrame

(***************************************************************************)
(* handlers.createEventsBatch: POST /api/events/batch.                     *)
(***************************************************************************)
MaxBatchSize == 100

Evt(date, eventText) == [ date |-> date, event |-> eventText ]

\* request bodies: events is "array", or "missing" (absent or not an array)
BatchBody(json, events, list) ==
    [ json |-> json, events |-> events, list |-> list ]

BatchBodies ==
    { BatchBody("object", "array",
                << Evt(<< "2", "0", "2", "6", "/", "0", "2", "/", "0", "3" >>, T1),
                   Evt(Today, T2) >>),
      BatchBody("object", "array", << Evt(OtherDay, T1) >>),
      BatchBody("object", "array", << Evt(Today, T1), Evt(Today, LongText) >>),
      BatchBody("object", "array", << >>),
      BatchBody("object", "array",
                [ i \in 1 .. (MaxBatchSize + 1) |-> Evt(Today, T1) ]),
      BatchBody("object", "missing", << >>),
      BatchBody("null", "missing", << >>),
      BatchBody("invalid", "missing", << >>) }

\* (mutant) only the first event of the batch is validated
BatchValidationStatusFirstOnly(body) ==
    IF body.json = "invalid" THEN 400
    ELSE IF body.json = "null" THEN 500
    ELSE IF body.events # "array" THEN 400
    ELSE IF Len(body.list) = 0 THEN 400
    ELSE IF Len(body.list) > MaxBatchSize THEN 400
    ELSE IF FieldStatus(body.list[1].date, body.list[1].event) # 0
    THEN 422
    ELSE 0

\* the checks before the store is touched: 0 when the request passes
BatchValidationStatus(body) ==
    IF body.json = "invalid" THEN 400
    ELSE IF body.json = "null" THEN 500
    ELSE IF body.events # "array" THEN 400
    ELSE IF Len(body.list) = 0 THEN 400
    ELSE IF Len(body.list) > MaxBatchSize THEN 400
    ELSE IF \E i \in 1 .. Len(body.list) :
               FieldStatus(body.list[i].date, body.list[i].event) # 0
    THEN 422
    ELSE 0

\* normalizedEvents
NormalizedEvents(list) ==
    [ i \in 1 .. Len(list) |-> Evt(NormalizeDate(list[i].date), list[i].event) ]

\* the request arrives: it is rejected, or dynamoDbService.createEventsBatch
\* is called and issues the first event's query
StartCreateEventsBatch(p, body) ==
    /\ Idle(p)
    /\ started < MaxRuns
    /\ started' = started + 1
    /\ LET pr == [ IdleProc EXCEPT !.op = "createEventsBatch",
                                   !.body = body ]
           status == BatchValidationStatus(body)
       IN  proc' = [ proc EXCEPT ![p] =
                       IF status # 0 THEN Respond(pr, status, "rejected")
                       ELSE BatchNext([ pr EXCEPT !.batch =
                                           NormalizedEvents(body.list) ], 1) ]
    /\ UNCHANGED << eventsTable, binTable, cache, now, ticks, apiCalls,
                    device, config, hist >>

(***************************************************************************)
(* DisplayFormatterService.formatDisplayFromDb called on its own.          *)
(***************************************************************************)
\* a line of 40 characters: the digits 0 .. 9, four times
Line40 == [ i \in 1 .. 40 |-> Alphabet[7 + (i % 10)] ]

ABCD == << "A", "\n", "B", "\n", "C", "\n", "D" >>

\* event texts: missing or empty, one line, two lines, four lines, a line
\* over the budget, line breaks only
FormatTexts ==
    { << >>, T1, T2, ABCD, Line40, << "\n", "\n", "\n", "\n" >> }

\* a service name SERVICE_MAPPING does not know
GardenWaste == << "G", "a", "r", "d", "e", "n", " ", "W", "a", "s", "t", "e", " ", "C", "o", "l", "l", "e", "c", "t", "i", "o", "n", " ", "S", "e", "r", "v", "i", "c", "e" >>

FormatServices == { Recycling, Domestic, FoodWaste, GardenWaste }

SeqsUpTo(S, n) == UNION { [ 1 .. k -> S ] : k \in 0 .. n }

\* the events argument: absent, or event items in the order given
FormatEventArgs ==
    { Arg(TRUE, << >>) } \cup
    { Arg(FALSE, [ i \in 1 .. Len(ts) |-> NewEventItem(Today, i, ts[i], 500) ]) :
         ts \in SeqsUpTo(FormatTexts, MaxFormatEvents) }

\* the binCollections argument: absent, or collection items
FormatBinArgs ==
    { Arg(TRUE, << >>) } \cup
    { Arg(FALSE, [ i \in 1 .. Len(ss) |->
                    BinItem(Tomorrow, ss[i],
                            Raw(ss[i], RawTomorrow, << "1" >>), 500) ]) :
         ss \in SeqsUpTo(FormatServices, MaxFormatBins) }

\* the caller invokes formatDisplayFromDb: it returns a payload or throws
Format(p, eventsArg, binsArg) ==
    /\ Idle(p)
    /\ LET out == TryFormatDisplayFromDb(eventsArg, binsArg, Today)
       IN  proc' = [ proc EXCEPT ![p] =
                       [ IdleProc EXCEPT !.op = "format", !.pc = "done",
                                         !.events = eventsArg.items,
                                         !.eventsAbsent = eventsArg.absent,
                                         !.tomorrowCollections = binsArg.items,
                                         !.binsAbsent = binsArg.absent,
                                         !.display = out.display,
                                         !.raised = out.raised ] ]
    /\ UNCHANGED << eventsTable, binTable, cache, now, ticks, apiCalls,
                    device, config, started, hist >>

\* the caller takes the payload; the formatter keeps no state
FormatReturn(p) ==
    /\ proc[p].op = "format"
    /\ proc[p].pc = "done"
    /\ proc' = [ proc EXCEPT ![p] = IdleProc ]
    /\ UNCHANGED << eventsTable, binTable, cache, now, ticks, apiCalls,
                    device, config, started, hist >>

(***************************************************************************)
(* Initial states.                                                         *)
(***************************************************************************)
Configured ==
    [ QUOTE0_TEXT_API |-> "https://device/text", QUOTE0_AUTH_TOKEN |-> "token" ]

\* the environment can leave either variable unset
Configs ==
    { [ QUOTE0_TEXT_API |-> a, QUOTE0_AUTH_TOKEN |-> t ] :
         a \in { "", "https://device/text" }, t \in { "", "token" } }

\* event stores the upsert path can have left behind: at most one item a date
InitEventTables == { {}, { NewEventItem(Today, 2, T1, 500) } }

InitCommon ==
    /\ now = StartTime
    /\ ticks = 0
    /\ apiCalls = 0
    /\ device = [ display |-> NoDisplay, received |-> 0 ]
    /\ proc = [ p \in Procs |-> IdleProc ]
    /\ started = 0
    /\ hist = << >>

InitUpsert ==
    /\ eventsTable \in InitEventTables
    /\ binTable = {}
    /\ cache = EmptyCache
    /\ config = Configured
    /\ InitCommon

\* event stores with several items for one date, as overlapping upserts and
\* POST /api/events leave them behind
InitManyEventTables ==
    { { NewEventItem(Today, 1, T2, 400), NewEventItem(Today, 2, T1, 500) },
      { NewEventItem(Today, 1, T2, 400), NewEventItem(Today, 2, T1, 500),
        NewEventItem(OtherDay, 3, T1, 600) } }

InitUpsertMany ==
    /\ eventsTable \in InitManyEventTables
    /\ binTable = {}
    /\ cache = EmptyCache
    /\ config = Configured
    /\ InitCommon

InitStore ==
    /\ eventsTable = {}
    /\ binTable \in { {}, { BinItem(Tomorrow, Recycling,
                                    Raw(Recycling, RawTomorrow, << "0" >>), 500) } }
    /\ cache = EmptyCache
    /\ config = Configured
    /\ InitCommon

InitFetch ==
    /\ eventsTable = {}
    /\ binTable = {}
    /\ cache = EmptyCache
    /\ config = Configured
    /\ InitCommon

InitPush ==
    /\ eventsTable = {}
    /\ binTable = {}
    /\ cache = EmptyCache
    /\ config \in Configs
    /\ InitCommon

InitRun ==
    /\ eventsTable \in InitEventTables
    /\ binTable = {}
    /\ cache \in { EmptyCache,
                   [ hasData |-> TRUE, data |-> ListA, timestamp |-> 500 ] }
    /\ config \in { Configured, [ Configured EXCEPT !.QUOTE0_AUTH_TOKEN = "" ] }
    /\ InitCommon

(***************************************************************************)
(* Specifications.                                                         *)
(***************************************************************************)
NoOtherCall(p) == \A q \in Procs \ { p } : Idle(q)

UpsertSteps(p) ==
    \/ UpsertQueryOk(p)
    \/ UpsertUpdateOk(p)
    \/ UpsertCreateOk(p)
    \/ UpsertFail(p)
    \/ Return(p)

\* upsertEvent calls that do not overlap
NextUpsertSeq ==
    \/ \E p \in Procs, d \in EventDates, t \in Texts :
          NoOtherCall(p) /\ StartUpsert(p, d, t)
    \/ \E p \in Procs : UpsertSteps(p)
    \/ Tick(1, MaxUpsertTicks)

SpecUpsertSeq == InitUpsert /\ [][NextUpsertSeq]_vars

\* upsertEvent calls that do not overlap, on a store with several items for
\* one date
SpecUpsertMany == InitUpsertMany /\ [][NextUpsertSeq]_vars

\* upsertEvent calls that may overlap
NextUpsertConc ==
    \/ \E p \in Procs, d \in EventDates, t \in Texts : StartUpsert(p, d, t)
    \/ \E p \in Procs : UpsertSteps(p)

SpecUpsertConc == InitUpsert /\ [][NextUpsertConc]_vars

\* storeBinCollections calls that do not overlap
NextStore ==
    \/ \E p \in Procs, l \in ApiLists : NoOtherCall(p) /\ StartStore(p, l)
    \/ \E p \in Procs : StorePutOk(p) \/ StorePutFail(p) \/ Return(p)
    \/ Tick(1, MaxStoreTicks)

SpecStore == InitStore /\ [][NextStore]_vars

\* fetchBinCollections calls that do not overlap, hours apart
FetchTicks == { 1, MaxAgeMs - 1 }

NextFetch ==
    \/ \E p \in Procs : NoOtherCall(p) /\ StartFetch(p)
    \/ \E p \in Procs, r \in Responses : FetchResponds(p, r)
    \/ \E p \in Procs : Return(p)
    \/ \E d \in FetchTicks : Tick(d, MaxFetchTicks)

SpecFetch == InitFetch /\ [][NextFetch]_vars

\* updateDisplay calls, seconds apart
Displays ==
    { FormatDisplayFromDb(<< >>, << >>, Today),
      FormatDisplayFromDb(<< NewEventItem(Today, 1, T2, 500) >>, << >>, Today) }

PushTicks == { 500, 3000 }

NextPush ==
    \/ \E p \in Procs, d \in Displays : StartPush(p, d)
    \/ \E p \in Procs : PushOk(p) \/ PushError(p) \/ PushWake(p) \/ Return(p)
    \/ \E d \in PushTicks : Tick(d, MaxPushTicks)

SpecPush == InitPush /\ [][NextPush]_vars

\* scheduled runs and POST requests, one at a time
RunSteps(p) ==
    \/ StorePutOk(p)
    \/ StorePutFail(p)
    \/ UpsertQueryOk(p)
    \/ UpsertUpdateOk(p)
    \/ UpsertCreateOk(p)
    \/ UpsertFail(p)
    \/ QueryTomorrowOk(p)
    \/ QueryTodayOk(p)
    \/ QueryFail(p)
    \/ CreateEventOk(p)
    \/ CreateEventFail(p)
    \/ PushOk(p)
    \/ PushError(p)
    \/ PushWake(p)
    \/ Return(p)

NextRun ==
    \/ \E p \in Procs : NoOtherCall(p) /\ StartScheduled(p)
    \/ \E p \in Procs, b \in Bodies : NoOtherCall(p) /\ StartCreateEvent(p, b)
    \/ \E p \in Procs, b \in BatchBodies :
          NoOtherCall(p) /\ StartCreateEventsBatch(p, b)
    \/ \E p \in Procs, r \in Responses : FetchResponds(p, r)
    \/ \E p \in Procs : RunSteps(p)

SpecRun == InitRun /\ [][NextRun]_vars

\* runs and requests, one at a time, when every awaited call settles in the
\* end: axios, the DynamoDB client and the sleep timer resolve or reject,
\* and the caller takes the result
FairResponses ==
    { [ kind |-> "ok", collections |-> ListA ],
      [ kind |-> "rejected", collections |-> << >> ] }

IoSettles ==
    \E p \in Procs :
       \/ StorePutFail(p) \/ UpsertFail(p) \/ QueryFail(p)
       \/ CreateEventFail(p) \/ PushError(p) \/ PushWake(p) \/ Return(p)
       \/ \E r \in FairResponses : FetchResponds(p, r)
       \/ StorePutOk(p) \/ UpsertQueryOk(p) \/ UpsertUpdateOk(p)
       \/ UpsertCreateOk(p) \/ QueryTomorrowOk(p) \/ QueryTodayOk(p)
       \/ CreateEventOk(p) \/ PushOk(p)

NextRunFair ==
    \/ \E p \in Procs : NoOtherCall(p) /\ StartScheduled(p)
    \/ \E p \in Procs :
          \E b \in { Body("object", Today, T2), Body("object", Today, LongText) } :
             NoOtherCall(p) /\ StartCreateEvent(p, b)
    \/ \E p \in Procs :
          \E b \in { BatchBody("object", "array",
                               << Evt(Today, T1), Evt(Today, T2) >>) } :
             NoOtherCall(p) /\ StartCreateEventsBatch(p, b)
    \/ IoSettles

SpecRunFair == InitFetch /\ [][NextRunFair]_vars /\ WF_vars(IoSettles)

\* a scheduled run and a POST /api/events request whose invocations may
\* overlap: nothing in the services keeps one from starting, or from taking
\* a step, while the other is under way
OverlapResponses ==
    { [ kind |-> "ok", collections |-> l ] : l \in { ListA, ListB } }

\* two invocations remain to be started
InitOverlap ==
    /\ eventsTable = {}
    /\ binTable = {}
    /\ cache = EmptyCache
    /\ config = Configured
    /\ now = StartTime
    /\ ticks = 0
    /\ apiCalls = 0
    /\ device = [ display |-> NoDisplay, received |-> 0 ]
    /\ proc = [ p \in Procs |-> IdleProc ]
    /\ started = MaxRuns - 2
    /\ hist = << >>

OverlapSteps(p) ==
    \/ StorePutOk(p)
    \/ StorePutFail(p)
    \/ QueryTomorrowOk(p)
    \/ QueryTodayOk(p)
    \/ QueryFail(p)
    \/ CreateEventOk(p)
    \/ CreateEventFail(p)
    \/ PushOk(p)
    \/ PushError(p)
    \/ PushWake(p)

NextOverlap ==
    \/ StartScheduled("p1")
    \/ \E b \in { Body("object", Today, T1) } : StartCreateEvent("p2", b)
    \/ \E p \in Procs, r \in OverlapResponses : FetchResponds(p, r)
    \/ \E p \in Procs : OverlapSteps(p)

SpecOverlap == InitOverlap /\ [][NextOverlap]_vars

\* POST requests whose event text is around the length limits, one at a time
TextOfLength(n) == [ i \in 1 .. n |-> "x" ]

TextLengths == { 84, 85, MaxEventTextLength, MaxEventTextLength + 1 }

LengthBodies == { Body("object", Today, TextOfLength(n)) : n \in TextLengths }

LengthBatchBodies ==
    { BatchBody("object", "array", << Evt(Today, TextOfLength(n)) >>) :
         n \in TextLengths }

HandlerSteps(p) ==
    \/ UpsertQueryOk(p)
    \/ UpsertUpdateOk(p)
    \/ UpsertCreateOk(p)
    \/ UpsertFail(p)
    \/ QueryTomorrowOk(p)
    \/ QueryTodayOk(p)
    \/ QueryFail(p)
    \/ CreateEventOk(p)
    \/ CreateEventFail(p)
    \/ PushOk(p)
    \/ PushError(p)
    \/ PushWake(p)
    \/ Return(p)

NextLength ==
    \/ \E p \in Procs, b \in LengthBodies :
          NoOtherCall(p) /\ StartCreateEvent(p, b)
    \/ \E p \in Procs, b \in LengthBatchBodies :
          NoOtherCall(p) /\ StartCreateEventsBatch(p, b)
    \/ \E p \in Procs : HandlerSteps(p)

SpecLength == InitRun /\ [][NextLength]_vars

\* formatDisplayFromDb calls, one at a time
InitFormat ==
    /\ eventsTable = {}
    /\ binTable = {}
    /\ cache = EmptyCache
    /\ config = Configured
    /\ InitCommon

NextFormat ==
    \/ \E p \in Procs :
          /\ Idle(p) /\ NoOtherCall(p)
          /\ \E e \in FormatEventArgs, b \in FormatBinArgs : Format(p, e, b)
    \/ \E p \in Procs : FormatReturn(p)

SpecFormat == InitFormat /\ [][NextFormat]_vars

(***************************************************************************)
(* Properties of the event store's upsert.                                 *)
(***************************************************************************)
CountFor(date) == Cardinality({ r \in eventsTable : r.date = date })

UpsertReturned(p) ==
    proc[p].op = "upsert" /\ proc[p].pc = "done" /\ ~ proc[p].raised

\* C1: with non-overlapping upsertEvent calls on a store holding at most one
\* item per date, every date keeps at most one item, and when an upsert
\* (date, text) has returned, the date has exactly one item and its text is
\* the text just written.
C1_SequentialUpsertOnePerDate ==
    /\ \A d \in EventDates : CountFor(d) <= 1
    /\ \A p \in Procs :
          UpsertReturned(p) =>
             /\ CountFor(proc[p].date) = 1
             /\ \A r \in eventsTable :
                   r.date = proc[p].date => r.event = proc[p].text

\* witness of C1: an upsert(date, text2) has returned after an earlier
\* successful upsert(date, text1) with another text
C1_Witness ==
    \E p \in Procs :
       /\ UpsertReturned(p)
       /\ Len(proc[p].existing) > 0
       /\ \E i \in 1 .. Len(hist) :
             /\ hist[i].op = "upsert"
             /\ ~ hist[i].raised
             /\ hist[i].date = proc[p].date
             /\ hist[i].text # proc[p].text
       /\ CountFor(proc[p].date) = 1

\* both calls ran their query before either wrote, and both found nothing
BothObservedNone(p, q) ==
    /\ p # q
    /\ UpsertReturned(p) /\ UpsertReturned(q)
    /\ proc[p].date = proc[q].date
    /\ Len(proc[p].existing) = 0 /\ Len(proc[q].existing) = 0

\* C2: when two upsertEvent calls for one date have both observed no
\* existing item and both returned, each has created its own item: the date
\* then holds at least two items.
C2_InterleavedUpsertsBothCreate ==
    \A p, q \in Procs :
       BothObservedNone(p, q) =>
          /\ CountFor(proc[p].date) >= 2
          /\ proc[p].item \in eventsTable
          /\ proc[q].item \in eventsTable
          /\ proc[p].item.id # proc[q].item.id

\* witness of C2: the state with two items for the date, reached by the
\* interleaving
C2_Witness ==
    \E p, q \in Procs :
       /\ BothObservedNone(p, q)
       /\ CountFor(proc[p].date) = 2

(***************************************************************************)
(* Properties of the collection store.                                     *)
(***************************************************************************)
BinKeys == { << r.date, r.service >> : r \in binTable }

StoreReturned(p) ==
    proc[p].op = "store" /\ proc[p].pc = "done" /\ ~ proc[p].raised

\* the call before this one stored the same list, successfully
StoredJustBefore(p) ==
    /\ Len(hist) > 0
    /\ hist[Len(hist)].op = "store"
    /\ ~ hist[Len(hist)].raised
    /\ hist[Len(hist)].coll = proc[p].coll

\* C3: the store never holds two items with one (date, service) key; when
\* storeBinCollections has returned, each entry of its list has exactly one
\* item under its key; and storing the list that was stored just before
\* leaves the set of keys as it was after the first store.
C3_StoreIdempotent ==
    /\ \A r1, r2 \in binTable :
          (r1.date = r2.date /\ r1.service = r2.service) => r1 = r2
    /\ \A p \in Procs :
          StoreReturned(p) =>
             /\ \A i \in 1 .. Len(proc[p].coll) :
                   Cardinality({ r \in binTable :
                       /\ r.date = ParseRawDate(proc[p].coll[i].date)
                       /\ r.service = proc[p].coll[i].service }) = 1
             /\ StoredJustBefore(p) => BinKeys = hist[Len(hist)].keys

\* witness of C3: a list with a repeated key has been stored a second time,
\* later than the first, and the items were overwritten in place
C3_Witness ==
    \E p \in Procs :
       /\ StoreReturned(p)
       /\ StoredJustBefore(p)
       /\ proc[p].coll = ListB
       /\ Cardinality(binTable) = 2
       /\ \A r \in binTable : r.updated_at > StartTime

(***************************************************************************)
(* Properties of the schedule fetcher.                                     *)
(***************************************************************************)
FetchDone(p) == proc[p].op = "fetch" /\ proc[p].pc = "done"

FailedResponses == { "unsuccessful", "rejected", "malformed" }

\* C4: fetchBinCollections never raises; when the external call failed it
\* returns the cached list if a cache exists, whatever its age, and the
\* empty list otherwise.
C4_FetchNeverRaises ==
    \A p \in Procs :
       FetchDone(p) =>
          /\ ~ proc[p].raised
          /\ proc[p].response \in FailedResponses =>
                proc[p].list = IF cache.hasData THEN cache.data ELSE << >>

\* witness of C4: the call failed with a cache older than the threshold and
\* returned that cache, after an earlier call failed without a cache and
\* returned the empty list
C4_Witness ==
    \E p \in Procs :
       /\ FetchDone(p)
       /\ proc[p].response \in FailedResponses
       /\ proc[p].cache0.hasData
       /\ proc[p].now0 - proc[p].cache0.timestamp >= MaxAgeMs
       /\ proc[p].list = proc[p].cache0.data
       /\ Len(proc[p].list) > 0
       /\ \E i \in 1 .. Len(hist) :
             /\ hist[i].op = "fetch"
             /\ hist[i].response \in FailedResponses
             /\ ~ hist[i].hadCache
             /\ hist[i].list = << >>

\* the age of the cache a call found, and whether it was below the threshold
AgeFound(pr) == pr.now0 - pr.cache0.timestamp

FoundFresh(pr) ==
    pr.cache0.hasData /\ AgeFound(pr) < CACHE_TTL_HOURS * 60 * 60 * 1000

\* C5: a call that finds a cache younger than the threshold (12 hours)
\* returns the cached list without calling the schedule API; a call reaches
\* the schedule API only when it found no cache or one at or above the
\* threshold.
C5_FreshCacheNoApiCall ==
    \A p \in Procs :
       FetchDone(p) =>
          /\ FoundFresh(proc[p]) =>
                /\ apiCalls = proc[p].api0
                /\ proc[p].response = "none"
                /\ proc[p].list = proc[p].cache0.data
          /\ apiCalls # proc[p].api0 =>
                \/ ~ proc[p].cache0.hasData
                \/ AgeFound(proc[p]) >= CACHE_TTL_HOURS * 60 * 60 * 1000

\* witness of C5: a cache one millisecond short of the threshold is served
\* without a call
C5_Witness ==
    \E p \in Procs :
       /\ FetchDone(p)
       /\ proc[p].cache0.hasData
       /\ AgeFound(proc[p]) = CACHE_TTL_HOURS * 60 * 60 * 1000 - 1
       /\ apiCalls = proc[p].api0
       /\ proc[p].list = proc[p].cache0.data
       /\ Len(proc[p].list) > 0

(***************************************************************************)
(* Properties of the device client.                                        *)
(***************************************************************************)
PushReturned(p) == proc[p].op = "push" /\ proc[p].pc = "done"

AllAttemptsFailed(pr) ==
    /\ pr.posts > 0
    /\ \A i \in 1 .. Len(pr.outcomes) : pr.outcomes[i] = "error"

\* C6: when every attempt failed, updateDisplay has made exactly 3 HTTP
\* attempts, the second at least 1000 ms after the first and the third at
\* least 2000 ms after the second, and has returned normally.
C6_ThreeAttemptsThenReturn ==
    \A p \in Procs :
       (PushReturned(p) /\ AllAttemptsFailed(proc[p])) =>
          /\ proc[p].posts = 3
          /\ Len(proc[p].attemptAt) = 3
          /\ proc[p].attemptAt[2] - proc[p].attemptAt[1] >= 1000
          /\ proc[p].attemptAt[3] - proc[p].attemptAt[2] >= 2000
          /\ ~ proc[p].raised

\* witness of C6: a call that failed three times has returned
C6_Witness ==
    \E p \in Procs :
       /\ PushReturned(p)
       /\ proc[p].outcomes = << "error", "error", "error" >>
       /\ proc[p].posts = 3

\* C7: on repeated failure the pusher makes 3 attempts in total and the
\* delays it sleeps follow the schedule 1 s, 2 s, 4 s.
C7_BackoffSchedule ==
    \A p \in Procs :
       (PushReturned(p) /\ AllAttemptsFailed(proc[p])) =>
          /\ proc[p].posts = 3
          /\ proc[p].sleeps = << 1000, 2000, 4000 >>

\* C8: with the endpoint or the credential not configured, updateDisplay
\* returns normally without any HTTP attempt and without any sleep, and the
\* device receives nothing.
C8_UnconfiguredPushSkipped ==
    \A p \in Procs :
       (PushReturned(p) /\ ( config.QUOTE0_TEXT_API = ""
                              \/ config.QUOTE0_AUTH_TOKEN = "" )) =>
          /\ proc[p].posts = 0
          /\ proc[p].attemptAt = << >>
          /\ proc[p].sleeps = << >>
          /\ ~ proc[p].raised
          /\ proc[p].error = ""
          /\ device.received = 0

\* witness of C8: the endpoint is set, the credential is not, and the call
\* has returned
C8_Witness ==
    \E p \in Procs :
       /\ PushReturned(p)
       /\ config.QUOTE0_TEXT_API # ""
       /\ config.QUOTE0_AUTH_TOKEN = ""
       /\ proc[p].posts = 0

(***************************************************************************)
(* Properties of the runs.                                                 *)
(***************************************************************************)
ScheduledOrder ==
    << "fetchSchedule", "storeMany", "queryTomorrowCollections",
       "queryTodayEvents", "render", "push" >>

OnDemandOrder ==
    << "queryTomorrowCollections", "queryTodayEvents", "render", "push" >>

IsPrefix(s, t) ==
    /\ Len(s) <= Len(t)
    /\ \A i \in 1 .. Len(s) : s[i] = t[i]

\* the steps begun follow the order, every step but the last begun has
\* completed, and at most one step is in progress
StepsInOrder(pr, order) ==
    /\ IsPrefix(pr.steps, order)
    /\ IsPrefix(pr.ended, pr.steps)
    /\ Len(pr.steps) <= Len(pr.ended) + 1

\* C9: in every scheduled run the steps start in the order fetchSchedule,
\* storeMany, queryTomorrowCollections, queryTodayEvents, render, push, and
\* a step starts only when the one before it has completed, so at most one
\* step of a run is in progress at any time.
C9_ScheduledStepsInOrder ==
    \A p \in Procs :
       proc[p].op = "scheduled" => StepsInOrder(proc[p], ScheduledOrder)

\* witness of C9: a scheduled run that fetched from the API, stored two
\* collections and pushed has returned success with all six steps completed
C9_Witness ==
    \E p \in Procs :
       /\ proc[p].op = "scheduled"
       /\ proc[p].pc = "done"
       /\ proc[p].success
       /\ proc[p].steps = ScheduledOrder
       /\ proc[p].ended = ScheduledOrder
       /\ proc[p].response = "ok"
       /\ proc[p].storedCount = 2
       /\ device.received = 1

OnDemand(p) == proc[p].op \in { "createEvent", "createEventsBatch" }

\* C10: the run a POST handler makes after its event write executes
\* queryTomorrowCollections, queryTodayEvents, render, push in that order,
\* one at a time, and no step of the handler calls the schedule API,
\* changes the fetcher's cache or changes the collection store.
C10_OnDemandRunReadsOnly ==
    /\ [](\A p \in Procs : OnDemand(p) => StepsInOrder(proc[p], OnDemandOrder))
    /\ [][(\E p \in Procs : OnDemand(p)) =>
             UNCHANGED << apiCalls, cache, binTable >>]_vars

\* witness of C10: a handler has stored its event, run all four steps and
\* answered, with a filled cache and no API call made
C10_Witness ==
    \E p \in Procs :
       /\ OnDemand(p)
       /\ proc[p].pc = "done"
       /\ proc[p].statusCode = 201
       /\ proc[p].item \in eventsTable
       /\ proc[p].steps = OnDemandOrder
       /\ proc[p].ended = OnDemandOrder
       /\ device.received = 1
       /\ cache.hasData
       /\ apiCalls = 0

(***************************************************************************)
(* Properties of a run's error handling.                                   *)
(***************************************************************************)
ScheduledDone(p) == proc[p].op = "scheduled" /\ proc[p].pc = "done"

StoreSteps == { "storeMany", "queryTomorrowCollections", "queryTodayEvents" }

\* the step in which the invocation saw an awaited call reject
RaisedStep(pr) == pr.raisedIn

\* the message of the error the store operation of a step rejects with
MessageOf(step) ==
    IF step = "storeMany" THEN "put rejected"
    ELSE IF step = "queryTomorrowCollections" THEN "collections query rejected"
    ELSE "events query rejected"

StepsBegun(pr) == { pr.steps[i] : i \in 1 .. Len(pr.steps) }

\* the steps that come after a step in the scheduled order
LaterSteps(step) ==
    { ScheduledOrder[j] : j \in { k \in 1 .. Len(ScheduledOrder) :
         \E i \in 1 .. (k - 1) : ScheduledOrder[i] = step } }

Answered(p) ==
    /\ OnDemand(p)
    /\ proc[p].pc = "done"
    /\ proc[p].statusCode \in { 201, 207 }

\* the device accepted the payload of this invocation's push
DeviceUpdated(pr) ==
    /\ Len(pr.outcomes) > 0
    /\ pr.outcomes[Len(pr.outcomes)] = "ok"

\* C14: in the 201 / 207 answers of POST /api/events and POST
\* /api/events/batch, quote0_updated is true exactly when the follow-up push
\* updated the device; it is false when the push failed on every attempt,
\* was skipped or was never reached.
C14_FlagTellsPushOutcome ==
    \A p \in Procs :
       Answered(p) => (proc[p].quote0_updated <=> DeviceUpdated(proc[p]))

\* C15: after a successful POST /api/events for a date, exactly one event
\* record exists for that date and it holds the text just posted.
C15_PostUpserts ==
    \A p \in Procs :
       ( /\ proc[p].op = "createEvent"
         /\ proc[p].pc = "done"
         /\ proc[p].statusCode = 201 ) =>
          /\ CountFor(proc[p].date) = 1
          /\ \A r \in eventsTable :
                r.date = proc[p].date => r.event = proc[p].text

(***************************************************************************)
(* Properties of the display formatter.                                    *)
(***************************************************************************)
Formatted(p) == proc[p].op = "format" /\ proc[p].pc = "done"

\* both arguments are arrays
ArraysGiven(pr) == ~ pr.eventsAbsent /\ ~ pr.binsAbsent

\* the lines of the payload's message
BodyLines(pr) == Split(pr.display.message, "\n")

\* C16: for every list of events and every list of collections, the
\* payload of formatDisplayFromDb has a message of exactly 3 lines, each at
\* most the line length long, a title of at most 25 characters and a
\* signature of at most the line length.
C16_PayloadWithinBudgets ==
    \A p \in Procs :
       (Formatted(p) /\ ArraysGiven(proc[p])) =>
          /\ ~ proc[p].raised
          /\ Len(BodyLines(proc[p])) = 3
          /\ \A i \in 1 .. Len(BodyLines(proc[p])) :
                Len(BodyLines(proc[p])[i]) <= MAX_LINE_LENGTH
          /\ Len(proc[p].display.title) <= 25
          /\ Len(proc[p].display.signature) <= MAX_LINE_LENGTH

\* witness of C16: two events, the first a line of 40 characters, and a
\* collection whose signature had to be cut
C16_Witness ==
    \E p \in Procs :
       /\ Formatted(p)
       /\ Len(proc[p].events) = 2
       /\ proc[p].events[1].event = Line40
       /\ Len(proc[p].tomorrowCollections) = 1
       /\ proc[p].tomorrowCollections[1].service = GardenWaste
       /\ Len(proc[p].display.signature) = MAX_LINE_LENGTH
       /\ Len(BodyLines(proc[p])[1]) = MAX_LINE_LENGTH

\* C17: formatDisplayFromDb never raises, whatever its arguments: empty or
\* absent events, empty or absent collections, events without a text.
C17_FormatterNeverRaises ==
    \A p \in Procs : Formatted(p) => ~ proc[p].raised

\* C18: with no events and one collection for tomorrow named "Recycling
\* Collection Service", the signature reads exactly "collect Red bin tmr"
\* and the three body lines are empty.
C18_ScenarioA ==
    \A p \in Procs :
       ( /\ Formatted(p)
         /\ ArraysGiven(proc[p])
         /\ proc[p].events = << >>
         /\ Len(proc[p].tomorrowCollections) = 1
         /\ proc[p].tomorrowCollections[1].service = Recycling ) =>
          /\ proc[p].display.signature =
                << "c", "o", "l", "l", "e", "c", "t", " ", "R", "e", "d", " ",
                   "b", "i", "n", " ", "t", "m", "r" >>
          /\ BodyLines(proc[p]) = << << >>, << >>, << >> >>

\* the candidate lines: every event's text split on line breaks, in order
RECURSIVE Candidates(_)
Candidates(events) ==
    IF Len(events) = 0 THEN << >>
    ELSE Split(Head(events).event, "\n") \o Candidates(Tail(events))

\* C19: body line i is candidate line i (cut to the line length when it is
\* longer) for the first 3 candidates; further candidates are dropped and
\* missing ones are empty lines, so the body always has 3 lines.
C19_FirstThreeCandidates ==
    \A p \in Procs :
       (Formatted(p) /\ ArraysGiven(proc[p])) =>
          LET cands == Candidates(proc[p].events)
              lines == BodyLines(proc[p])
          IN  /\ Len(lines) = 3
              /\ \A i \in 1 .. 3 :
                    IF i <= Len(cands)
                    THEN /\ IsPrefix(lines[i], cands[i])
                         /\ Len(cands[i]) <= MAX_LINE_LENGTH =>
                               lines[i] = cands[i]
                    ELSE lines[i] = << >>

\* witness of C19: one event with the text "A\nB\nC\nD" gives the lines
\* A, B, C
C19_Witness ==
    \E p \in Procs :
       /\ Formatted(p)
       /\ Len(proc[p].events) = 1
       /\ proc[p].events[1].event = ABCD
       /\ BodyLines(proc[p]) = << << "A" >>, << "B" >>, << "C" >> >>

\* C20: every body line has at most 27 characters, and a first line of 40
\* characters is rendered as exactly its first 27 characters, without an
\* error.
C20_LineBudget27 ==
    \A p \in Procs :
       (Formatted(p) /\ ArraysGiven(proc[p])) =>
          /\ ~ proc[p].raised
          /\ \A i \in 1 .. Len(BodyLines(proc[p])) :
                Len(BodyLines(proc[p])[i]) <= 27
          /\ ( Len(proc[p].events) > 0 /\ proc[p].events[1].event = Line40 ) =>
                BodyLines(proc[p])[1] = SubSeq(Line40, 1, 27)

\* the names of a list with every repeated name dropped after its first
\* occurrence, up to position n
RECURSIVE FirstOccurrences(_, _)
FirstOccurrences(names, n) ==
    IF n = 0 THEN << >>
    ELSE FirstOccurrences(names, n - 1) \o
            ( IF \A j \in 1 .. (n - 1) : names[j] # names[n]
              THEN << names[n] >> ELSE << >> )

\* "collect {joined} tmr" for the collections of a day, cut to the line budget
CollectLine(binCollections) ==
    LET names == [ i \in 1 .. Len(binCollections) |->
                      FriendlyName(binCollections[i].service) ]
        joined == Join(FirstOccurrences(names, Len(names)), << ",", " " >>)
    IN  Substring(<< "c", "o", "l", "l", "e", "c", "t", " " >> \o joined
                     \o << " ", "t", "m", "r" >>, MAX_LINE_LENGTH)

\* C21: the collection line is built from the friendly names of the
\* collections, deduplicated keeping the first occurrence, joined with ", "
\* and wrapped as "collect {joined} tmr"; with no collections it is empty.
C21_CollectionLine ==
    \A p \in Procs :
       (Formatted(p) /\ ArraysGiven(proc[p])) =>
          proc[p].display.signature =
             IF proc[p].tomorrowCollections = << >> THEN << >>
             ELSE CollectLine(proc[p].tomorrowCollections)

\* an event of a request that fails the field checks of the batch handler
InvalidEvent(evt) ==
    \/ evt.date = << >>
    \/ evt.event = << >>
    \/ ~ IsDateFormat(NormalizeDate(evt.date))
    \/ Len(evt.event) > MaxEventTextLength

\* a batch request of an admissible size with at least one invalid event
BatchWithInvalidEvent(pr) ==
    /\ pr.op = "createEventsBatch"
    /\ pr.body.json = "object"
    /\ pr.body.events = "array"
    /\ Len(pr.body.list) \in 1 .. MaxBatchSize
    /\ \E i \in 1 .. Len(pr.body.list) : InvalidEvent(pr.body.list[i])

\* the invocation has written no event, begun no step of the display update
\* and sent nothing to the device
NothingDone(pr) ==
    /\ pr.batch = << >> /\ pr.k = 0
    /\ pr.succeeded = 0 /\ pr.failed = 0
    /\ pr.item = NoItem
    /\ pr.steps = << >> /\ pr.posts = 0

BatchTotal(pr) == Len(pr.batch)

\* a batch request that passed validation
ValidatedBatch(pr) == pr.op = "createEventsBatch" /\ pr.batch # << >>

\* C24: a validated batch processes every event, also after one has failed:
\* while the loop runs the events before the current one are counted as
\* succeeded or failed, and the answer has succeeded + failed = total = the
\* number of events in the request, with status 201 exactly when none failed
\* and 207 otherwise.
C24_BatchCounts ==
    \A p \in Procs :
       ValidatedBatch(proc[p]) =>
          /\ BatchTotal(proc[p]) = Len(proc[p].body.list)
          /\ proc[p].pc \in { "up_query", "up_update", "up_create" } =>
                /\ proc[p].k \in 1 .. BatchTotal(proc[p])
                /\ proc[p].succeeded + proc[p].failed = proc[p].k - 1
          /\ proc[p].pc = "done" =>
                /\ proc[p].k = BatchTotal(proc[p])
                /\ proc[p].succeeded + proc[p].failed = BatchTotal(proc[p])
                /\ proc[p].statusCode \in { 201, 207 }
                /\ proc[p].statusCode = 201 <=> proc[p].failed = 0

\* witness of C24: in a batch of two events the first failed, the second was
\* written, and the answer is 207
C24_Witness ==
    \E p \in Procs :
       /\ ValidatedBatch(proc[p])
       /\ proc[p].pc = "done"
       /\ BatchTotal(proc[p]) = 2
       /\ proc[p].failed = 1 /\ proc[p].succeeded = 1
       /\ proc[p].item.event = proc[p].batch[2].event
       /\ proc[p].batch[1].event # proc[p].batch[2].event
       /\ proc[p].statusCode = 207

\* the number of posts of the invocation that the device accepted
Accepted(pr) ==
    Cardinality({ i \in 1 .. Len(pr.outcomes) : pr.outcomes[i] = "ok" })

\* C25: a batch request makes at most one display update: each of the steps
\* queryTomorrowCollections, queryTodayEvents, render, push is begun at most
\* once, in that order, the device accepts at most one payload, and the
\* first step is begun only when every event of the batch has been written
\* or has failed.
C25_OneUpdateAfterAllEvents ==
    \A p \in Procs :
       ValidatedBatch(proc[p]) =>
          /\ IsPrefix(proc[p].steps, OnDemandOrder)
          /\ Accepted(proc[p]) <= 1
          /\ proc[p].pc \in { "up_query", "up_update", "up_create" } =>
                proc[p].steps = << >> /\ proc[p].posts = 0
          /\ proc[p].steps # << >> =>
                /\ proc[p].k = BatchTotal(proc[p])
                /\ proc[p].succeeded + proc[p].failed = BatchTotal(proc[p])

\* witness of C25: a batch of two events has written both, then run the
\* four steps once and delivered one payload
C25_Witness ==
    \E p \in Procs :
       /\ ValidatedBatch(proc[p])
       /\ BatchTotal(proc[p]) = 2
       /\ proc[p].succeeded = 2
       /\ proc[p].steps = OnDemandOrder
       /\ Accepted(proc[p]) = 1
       /\ proc[p].pc = "done"

\* the event texts of a well-formed request
RequestTexts(pr) ==
    IF pr.op = "createEvent" THEN { pr.body.event }
    ELSE { pr.body.list[i].event : i \in 1 .. Len(pr.body.list) }

\* C26: a request to either POST handler with an event text longer than 84
\* characters is answered 422 and nothing is stored for it.
C26_TextOver84Rejected ==
    \A p \in Procs :
       ( /\ OnDemand(p)
         /\ proc[p].body.json = "object"
         /\ \E t \in RequestTexts(proc[p]) : Len(t) > 84 ) =>
          /\ proc[p].pc = "done"
          /\ proc[p].statusCode = 422
          /\ NothingDone(proc[p])

\* what a call that found cache c returns when the schedule API fails
Fallback(c) == IF c.hasData THEN c.data ELSE << >>

\* C27: a response whose success flag is false is treated as a rejected
\* request is: the call does not raise, the cache stays as the call found
\* it, and the result is the cached list if there is one and the empty list
\* otherwise.
C27_UnsuccessfulLikeRejected ==
    \A p \in Procs :
       ( FetchDone(p) /\ proc[p].response \in { "unsuccessful", "rejected" } ) =>
          /\ ~ proc[p].raised
          /\ cache = proc[p].cache0
          /\ proc[p].list = Fallback(proc[p].cache0)

\* witness of C27: an unsuccessful response arrived at a call that found an
\* expired cache; the call returned that cache's list and left the cache alone
C27_Witness ==
    \E p \in Procs :
       /\ FetchDone(p)
       /\ proc[p].response = "unsuccessful"
       /\ proc[p].cache0.hasData
       /\ proc[p].cache0.data # << >>
       /\ apiCalls = proc[p].api0 + 1
       /\ cache = proc[p].cache0
       /\ proc[p].list = proc[p].cache0.data

(***************************************************************************)
(* Properties of storeBinCollections.                                      *)
(***************************************************************************)
\* the canonical date of a raw date "DD/MM/YYYY HH:MM:SS", read by position
CanonicalDate(raw) ==
    SubSeq(raw, 7, 10) \o << "-" >> \o SubSeq(raw, 4, 5) \o << "-" >>
       \o SubSeq(raw, 1, 2)

Storing(p) == proc[p].op = "store"

\* C28: every entry storeBinCollections has written is in the collection
\* store under the key (YYYY-MM-DD form of its DD/MM/YYYY HH:MM:SS date,
\* its service name as given).
C28_StoredUnderCanonicalKey ==
    \A p \in Procs :
       Storing(p) =>
          \A j \in 1 .. proc[p].storedCount :
             /\ IsDateFormat(CanonicalDate(proc[p].coll[j].date))
             /\ \E r \in binTable :
                   /\ r.date = CanonicalDate(proc[p].coll[j].date)
                   /\ r.service = proc[p].coll[j].service

\* witness of C28: the entry of 04/02/2026 for the recycling service is
\* stored under 2026-02-04 and the service's full name
C28_Witness ==
    \E p \in Procs :
       /\ Storing(p)
       /\ proc[p].pc = "done"
       /\ proc[p].storedCount >= 1
       /\ proc[p].coll[1].date = RawTomorrow
       /\ proc[p].coll[1].service = Recycling
       /\ \E r \in binTable : r.date = Tomorrow /\ r.service = Recycling

\* the last of the first n entries of a list that has the key of entry j
LastWithKey(coll, n, j) ==
    CHOOSE m \in j .. n :
       /\ coll[m].date = coll[j].date /\ coll[m].service = coll[j].service
       /\ \A l \in (m + 1) .. n :
             ~ (coll[l].date = coll[j].date /\ coll[l].service = coll[j].service)

\* C29: storeBinCollections writes its entries one at a time in list order:
\* while the write of entry i is awaited exactly the entries before i have
\* been written, so that of two written entries with the same key the later
\* one is what the store holds, and a call that returns without an error
\* returns the number of entries it was given.
C29_SequentialStore ==
    \A p \in Procs :
       Storing(p) =>
          /\ proc[p].pc = "st_put" =>
                /\ proc[p].i \in 1 .. Len(proc[p].coll)
                /\ proc[p].storedCount = proc[p].i - 1
          /\ \A j \in 1 .. proc[p].storedCount :
                \E r \in binTable :
                   /\ r.date = CanonicalDate(proc[p].coll[j].date)
                   /\ r.service = proc[p].coll[j].service
                   /\ r.round =
                         proc[p].coll[LastWithKey(proc[p].coll,
                                                  proc[p].storedCount, j)].round
          /\ (proc[p].pc = "done" /\ ~ proc[p].raised) =>
                proc[p].storedCount = Len(proc[p].coll)

\* witness of C29: a list of three entries whose first and third have the
\* same key has been stored; the count is 3 and the store holds the third
C29_Witness ==
    \E p \in Procs :
       /\ Storing(p)
       /\ proc[p].pc = "done" /\ ~ proc[p].raised
       /\ proc[p].coll = ListB
       /\ proc[p].storedCount = 3
       /\ \E r \in binTable :
             /\ r.date = Tomorrow /\ r.service = Recycling
             /\ r.round = << "2" >>

(***************************************************************************)
(* Properties of upsertEvent on a date with several items.                 *)
(***************************************************************************)
\* the step in which the update of an upsert that found several items resolves
UpdateOfSeveral(p) ==
    /\ proc[p].op = "upsert"
    /\ proc[p].pc = "up_update"
    /\ Len(proc[p].existing) > 1
    /\ proc'[p].pc = "done"
    /\ ~ proc'[p].raised

\* C30: when the query of an upsert returns several items for the date, the
\* update replaces the first item returned by an item with the new text and
\* the call's time as updated_at and with the same date, id, created_at and
\* ttl; every other item of the store stays as it was, and the number of
\* items does not change.
C30_UpdatesFirstItemOnly ==
    [][ \A p \in Procs :
           UpdateOfSeveral(p) =>
              LET first == proc[p].existing[1]
                  new == proc'[p].item
              IN  /\ first \in eventsTable
                  /\ new.event = proc[p].text
                  /\ new.updated_at = proc[p].ts
                  /\ new.date = first.date /\ new.id = first.id
                  /\ new.created_at = first.created_at
                  /\ new.ttl = first.ttl
                  /\ eventsTable' = (eventsTable \ { first }) \cup { new }
                  /\ Cardinality(eventsTable') = Cardinality(eventsTable) ]_vars

\* witness of C30: an upsert that found two items for its date has returned;
\* the first has the new text, which it did not have before, and the second
\* is still in the store
C30_Witness ==
    \E p \in Procs :
       /\ UpsertReturned(p)
       /\ Len(proc[p].existing) = 2
       /\ proc[p].item.id = proc[p].existing[1].id
       /\ proc[p].item.event = proc[p].text
       /\ proc[p].existing[1].event # proc[p].text
       /\ proc[p].item \in eventsTable
       /\ proc[p].existing[2] \in eventsTable
       /\ CountFor(proc[p].date) = 2

(***************************************************************************)
(* Properties of runs and requests as a whole.                             *)
(***************************************************************************)
\* a scheduled run whose schedule fetch failed and found no cache
FetchFailedNoCache(pr) ==
    /\ pr.op = "scheduled"
    /\ pr.response \in FailedResponses
    /\ ~ pr.cache0.hasData

InvalidReminder(pr) ==
    /\ pr.op = "createEvent"
    /\ pr.body.json = "object"
    /\ InvalidEvent(pr.body)

\* C32: a reminder request with a missing date, a missing text, a date that
\* is neither YYYY/MM/DD nor YYYY-MM-DD, or an oversized text is answered
\* 400 or 422 before the store is called: no identifier is drawn, no item is
\* written, no query, render or push step begins, and the step that answers
\* it leaves the event store and the device as they were.
C32_InvalidReminderRejectedEarly ==
    /\ [](\A p \in Procs :
            InvalidReminder(proc[p]) =>
               /\ proc[p].pc = "done"
               /\ proc[p].statusCode \in { 400, 422 }
               /\ proc[p].newId = 0
               /\ NothingDone(proc[p]))
    /\ [][ (\E p \in Procs : InvalidReminder(proc'[p])) =>
              UNCHANGED << eventsTable, device >> ]_vars

\* witness of C32: a request whose date is not in either format has been
\* answered 400
C32_Witness ==
    \E p \in Procs :
       /\ InvalidReminder(proc[p])
       /\ proc[p].body.date # << >> /\ proc[p].body.event # << >>
       /\ ~ IsDateFormat(NormalizeDate(proc[p].body.date))
       /\ proc[p].statusCode = 400

Scheduled(p) == proc[p].op = "scheduled"

ReturnedByApi ==
    { hist[i].list : i \in { k \in 1 .. Len(hist) :
                               hist[k].op = "fetch" /\ hist[k].response = "ok" } }
       \cup { proc[p].list : p \in { q \in Procs :
                               FetchDone(q) /\ proc[q].response = "ok" } }

\* C34: the fetcher's cache changes only in the step in which a fetch
\* succeeds, and then to the list returned, stamped with the time; so once
\* a fetch has succeeded the cache holds a list the schedule API returned,
\* and every later call finds a cache and returns a list the schedule API
\* returned, not the empty list of a call without a cache.
C34_CacheChangesOnSuccessOnly ==
    /\ [][ cache' # cache =>
              \E p \in Procs :
                 /\ proc[p].pc = "fe_get"
                 /\ proc'[p].response = "ok"
                 /\ cache' = [ hasData |-> TRUE, data |-> proc'[p].list,
                               timestamp |-> now ] ]_vars
    /\ [](ReturnedByApi # {} =>
            /\ cache.hasData
            /\ cache.data \in ReturnedByApi
            /\ \A p \in Procs :
                  FetchDone(p) =>
                     /\ proc[p].list \in ReturnedByApi
                     /\ proc[p].response # "ok" =>
                           /\ proc[p].cache0.hasData
                           /\ proc[p].list = proc[p].cache0.data)

\* witness of C34: after a fetch that returned a non-empty list, a later
\* fetch found the cache expired, failed, and returned that list
C34_Witness ==
    \E p \in Procs :
       /\ FetchDone(p)
       /\ proc[p].response \in FailedResponses
       /\ proc[p].list # << >>
       /\ proc[p].list \in ReturnedByApi
       /\ cache = proc[p].cache0

\* C35: updateDisplay makes between 0 and 3 HTTP attempts per call, every
\* attempt but the last has failed, so that none follows a success, and a
\* call whose attempt k succeeded has returned after exactly k attempts and
\* k - 1 sleeps.
C35_StopsAtFirstSuccess ==
    \A p \in Procs :
       proc[p].op = "push" =>
          /\ proc[p].posts \in 0 .. 3
          /\ Len(proc[p].outcomes) =
                IF proc[p].pc = "pu_post" THEN proc[p].posts - 1
                ELSE proc[p].posts
          /\ \A i \in 1 .. (proc[p].posts - 1) : proc[p].outcomes[i] = "error"
          /\ DeviceUpdated(proc[p]) =>
                /\ proc[p].pc = "done"
                /\ Len(proc[p].attemptAt) = proc[p].posts
                /\ Len(proc[p].sleeps) = proc[p].posts - 1
                /\ proc[p].attempt = proc[p].posts

\* witness of C35: the second attempt succeeded: two attempts, one sleep
C35_Witness ==
    \E p \in Procs :
       /\ PushReturned(p)
       /\ proc[p].outcomes = << "error", "ok" >>
       /\ proc[p].posts = 2
       /\ proc[p].sleeps = << RetryDelay(1) >>

\* the invocation has been started and has not returned yet
Running(p) == proc[p].pc \notin { "idle", "done" }

\* C36: when every awaited call settles in the end, every scheduled run and
\* every POST request that has been started reaches its return.
C36_EveryRunTerminates ==
    \A p \in Procs : Running(p) ~> (proc[p].pc = "done")

\* witness of C36: a scheduled run has gone through all six steps and the
\* longest push, three failed attempts, and has returned
C36_Witness ==
    \E p \in Procs :
       /\ Scheduled(p)
       /\ proc[p].pc = "done"
       /\ proc[p].steps = ScheduledOrder
       /\ proc[p].posts = MAX_RETRIES
       /\ Len(proc[p].sleeps) = MAX_RETRIES - 1
       /\ AllAttemptsFailed(proc[p])

(***************************************************************************)
(* Properties of a storeBinCollections call whose write is rejected.       *)
(***************************************************************************)
\* the write of an entry of the call was rejected
WriteRejected(pr) == pr.op = "store" /\ pr.raisedIn = "storeMany"

EndedSteps(pr) == { pr.ended[n] : n \in 1 .. Len(pr.ended) }

\* (service, round) of the entries for tomorrow among the first n entries of
\* a list, an entry standing for its key until a later one replaces it
TomorrowEntries(coll, n) ==
    { << coll[LastWithKey(coll, n, j)].service,
         coll[LastWithKey(coll, n, j)].round >> :
         j \in { m \in 1 .. n : CanonicalDate(coll[m].date) = Tomorrow } }

\* what the scheduled runs have written for tomorrow so far
WrittenForTomorrow ==
    UNION { TomorrowEntries(proc[q].coll, proc[q].storedCount) :
               q \in { r \in Procs : Scheduled(r) } }

\* what storeBinCollections of scheduled run q is to write for tomorrow
ToWriteForTomorrow(q) == TomorrowEntries(proc[q].coll, Len(proc[q].coll))

\* (service, round) of the items a query returned
ItemEntries(items) ==
    { << items[n].service, items[n].round >> : n \in 1 .. Len(items) }

\* C38: a request's follow-up run is not kept apart from a scheduled run
\* that is storing: its query of tomorrow's collections returns exactly the
\* entries the scheduled run has written up to that moment, whether or not
\* storeBinCollections has more to write, and the payload it renders and
\* pushes is built from those entries.
C38_ReadsWhatIsWrittenSoFar ==
    /\ [](\A p \in Procs :
             (OnDemand(p) /\ "render" \in EndedSteps(proc[p])) =>
                proc[p].display =
                   FormatDisplayFromDb(proc[p].events,
                                       proc[p].tomorrowCollections, Today))
    /\ [][\A p \in Procs :
             (OnDemand(p) /\ proc[p].pc = "q_tomorrow"
                          /\ proc'[p].pc = "q_today") =>
                /\ ItemEntries(proc'[p].tomorrowCollections)
                      = WrittenForTomorrow
                /\ Len(proc'[p].tomorrowCollections)
                      = Cardinality(WrittenForTomorrow)]_vars

\* witness of C38: the scheduled run was storing two entries for tomorrow;
\* the request's run queried after the first was written, and the device
\* has taken its payload, which shows one of the two
C38_Witness ==
    \E p, q \in Procs :
       /\ OnDemand(p) /\ Scheduled(q)
       /\ proc[q].coll = ListA
       /\ Cardinality(ToWriteForTomorrow(q)) = 2
       /\ Len(proc[p].tomorrowCollections) = 1
       /\ ItemEntries(proc[p].tomorrowCollections) \subseteq ToWriteForTomorrow(q)
       /\ ItemEntries(proc[p].tomorrowCollections) # ToWriteForTomorrow(q)
       /\ DeviceUpdated(proc[p])
       /\ device.display = proc[p].display
       /\ device.display =
             FormatDisplayFromDb(proc[p].events,
                                 proc[p].tomorrowCollections, Today)
       /\ device.display #
             FormatDisplayFromDb(proc[p].events,
                                 QueryBins(binTable, Tomorrow), Today)

\* the payload the stores would give now
LatestPayload ==
    FormatDisplayFromDb(QueryEvents(eventsTable, Today),
                        QueryBins(binTable, Tomorrow), Today)

Finished(p) == proc[p].pc = "done"

\* C39: a run's payload is fixed when the run has read the stores: every
\* attempt of its push, however late, sends what was formatted from that
\* reading, and the device shows the payload of the post it accepted last,
\* whichever run read the stores last.
C39_DeviceShowsLastAcceptedPost ==
    /\ [](\A p \in Procs :
             "render" \in EndedSteps(proc[p]) =>
                /\ proc[p].display =
                      FormatDisplayFromDb(proc[p].events,
                                          proc[p].tomorrowCollections, Today)
                /\ DeviceUpdated(proc[p]) => device.received >= 1)
    /\ [][device' # device =>
             \E p \in Procs :
                /\ proc[p].pc = "pu_post"
                /\ DeviceUpdated(proc'[p])
                /\ device'.display = proc[p].display
                /\ device'.received = device.received + 1]_vars

\* witness of C39: the request's run read the stores before the scheduled
\* run wrote tomorrow's two entries, its first post failed, and its retry
\* was accepted after the post of the scheduled run; both have finished and
\* the device shows the request's payload, not what the stores give now
C39_Witness ==
    \E p, q \in Procs :
       /\ OnDemand(p) /\ Scheduled(q)
       /\ Finished(p) /\ Finished(q)
       /\ DeviceUpdated(proc[p]) /\ DeviceUpdated(proc[q])
       /\ device.received = 2
       /\ proc[p].tomorrowCollections = << >>
       /\ Len(proc[q].tomorrowCollections) = 2
       /\ proc[p].posts > 1
       /\ proc[q].posts = 1
       /\ proc[p].attemptAt[1] < proc[q].attemptAt[1]
       /\ proc[q].display = LatestPayload
       /\ device.display = proc[p].display
       /\ device.display # LatestPayload

====
